---------------------------- MODULE Spec2Model ----------------------------
(***************************************************************************)
(* Model of the tunnel dataplane of tunnel-rust (src/src/proxy.rs,         *)
(* miner.rs, pool.rs, database.rs): per-session connection handler, the    *)
(* client->pool and pool->client pumps, the Stratum message observers, the *)
(* miner registry with its per-entry RwLock, the pool registry and the     *)
(* fire-and-forget persistence calls.                                      *)
(*                                                                         *)
(* Granularity: one action per await point or per atomic operation on     *)
(* shared state (DashMap get/insert/remove, RwLock acquire).  Code that   *)
(* runs between two such points is part of the action that precedes it.   *)
(* Floating point values are modelled as exact rationals <<num, den>>.    *)
(* Times are milliseconds.                                                 *)
(***************************************************************************)
EXTENDS Integers, Sequences, FiniteSets, TLC

\* ------------------------------------------------------------------ bounds
OneLines    == 2      \* lines read, both pumps of the session together
OneTicks    == 1      \* observed clock advances
MixLines    == 2      \* the same two bounds, SpecMix
MixTicks    == 1
AuthLines   == 2      \* the same two bounds, SpecAuth
AuthTicks   == 1
TwoLines    == 2      \* lines read, all pumps of both sessions, SpecTwo
JobLines    == 3      \* lines read, both pumps, SpecJob
JobTicks    == 1      \* observed clock advances, SpecJob
RateLen     == 3      \* submit timestamps held when calculate_hashrate runs, SpecRate
MaxScale    == 6      \* hashrates up to 2000 * 1000^MaxScale H/s, SpecFmt
MaxPushes   == 102    \* samples pushed onto one window, SpecPing
MaxProbes   == 2      \* measure_pool_ping tasks of one pool in flight, SpecBurst
BurstPushes == 3      \* samples pushed onto one window, SpecBurst
ApiLines    == 1      \* lines read from the two peers, SpecApi
ApiPushes   == 1      \* samples pushed onto one window, SpecApi
PingTicks   == 1      \* observed clock advances, SpecPing

\* ------------------------------------------------------- program constants
WindowCap     == 100       \* pool.rs: sample windows hold at most 100 values
WindowMinutes == 10        \* miner.rs: hashrate window, minutes
DefaultDifficulty == 1     \* miner.rs: MinerInfo::new difficulty 1.0

PingIntervalSecs == 30       \* pool.rs: monitor_pool_pings interval, seconds
PingTimeoutSecs  == 5        \* pool.rs: measure_pool_ping connect timeout, seconds

WindowMs == WindowMinutes * 60 * 1000
PingIntervalMs == PingIntervalSecs * 1000
PingTimeoutMs  == PingTimeoutSecs * 1000

\* ------------------------------------------------------------ JSON values
\* Strings carried in params are character sequences, so that split('.') is
\* computed; a method name is only ever compared, and is a plain string.
JNull    == [ty |-> "null", s |-> <<>>, n |-> 0, b |-> FALSE]
JStr(x)  == [ty |-> "str",  s |-> x,    n |-> 0, b |-> FALSE]
JNum(x)  == [ty |-> "num",  s |-> <<>>, n |-> x, b |-> FALSE]
JBool(x) == [ty |-> "bool", s |-> <<>>, n |-> 0, b |-> x]
JArr     == [ty |-> "arr",  s |-> <<>>, n |-> 0, b |-> FALSE]
MStr(x)  == [ty |-> "str",  m |-> x]
MNone    == [ty |-> "null", m |-> ""]

\* A line as read from a socket: its length in bytes (newline included),
\* whether serde_json parses it, which object keys are present and their
\* values.  params is the array's items, or <<>> with paramsArr = FALSE.
\* utf8: whether the bytes up to the newline are valid UTF-8.
Line(len, valid, has, id, method, isArr, params, result, error) ==
  [len |-> len, utf8 |-> TRUE, valid |-> valid, has |-> has, id |-> id,
   method |-> method, paramsArr |-> isArr, params |-> params,
   result |-> result, error |-> error]

UserW1Rig == <<"w", "1", ".", "r", "i", "g">>
Job42     == <<"j", "4", "2">>
Job43     == <<"j", "4", "3">>

CAuth ==
  Line(61, TRUE, {"id", "method", "params"}, JNum(1), MStr("mining.authorize"),
       TRUE, <<JStr(UserW1Rig), JStr(<<"x">>)>>, JNull, JNull)
\* authorize with a username without '.', with a leading '.', and with a
\* first parameter that is not a string
UserW2  == <<"w", "2">>
UserDot == <<".", "r">>
CAuthBare ==
  Line(57, TRUE, {"id", "method", "params"}, JNum(1), MStr("mining.authorize"),
       TRUE, <<JStr(UserW2), JStr(<<"x">>)>>, JNull, JNull)
CAuthDot ==
  Line(57, TRUE, {"id", "method", "params"}, JNum(1), MStr("mining.authorize"),
       TRUE, <<JStr(UserDot), JStr(<<"x">>)>>, JNull, JNull)
CAuthNum ==
  Line(54, TRUE, {"id", "method", "params"}, JNum(1), MStr("mining.authorize"),
       TRUE, <<JNum(7), JStr(<<"x">>)>>, JNull, JNull)
CSubmit ==
  Line(75, TRUE, {"id", "method", "params"}, JNum(2), MStr("mining.submit"),
       TRUE, <<JStr(UserW1Rig), JStr(Job42), JStr(<<"0">>)>>, JNull, JNull)
\* submit with a single positional parameter: no job id
CSubmitBare ==
  Line(53, TRUE, {"id", "method", "params"}, JNum(2), MStr("mining.submit"),
       TRUE, <<JStr(UserW1Rig)>>, JNull, JNull)
CGarbage ==
  Line(8, FALSE, {}, JNull, MNone, FALSE, <<>>, JNull, JNull)

\* eight bytes ending in a newline that are not valid UTF-8
CBinary == [CGarbage EXCEPT !.utf8 = FALSE]

PAccept ==
  Line(36, TRUE, {"id", "result", "error"}, JNum(2), MNone,
       FALSE, <<>>, JBool(TRUE), JNull)
PReject ==
  Line(53, TRUE, {"id", "result", "error"}, JNum(2), MNone,
       FALSE, <<>>, JBool(FALSE), JArr)
PError ==
  Line(52, TRUE, {"id", "result", "error"}, JNum(2), MNone,
       FALSE, <<>>, JNull, JArr)
PNotify ==
  Line(56, TRUE, {"id", "method", "params"}, JNull, MStr("mining.notify"),
       TRUE, <<JStr(Job43)>>, JNull, JNull)
PSetDiff ==
  Line(61, TRUE, {"id", "method", "params"}, JNull, MStr("mining.set_difficulty"),
       TRUE, <<JNum(1024)>>, JNull, JNull)
PGarbage ==
  Line(8, FALSE, {}, JNull, MNone, FALSE, <<>>, JNull, JNull)

PBinary == [PGarbage EXCEPT !.utf8 = FALSE]

ClientLines == {CAuth, CSubmit, CGarbage}
PoolLines   == {PAccept, PReject, PError, PNotify, PSetDiff, PGarbage}

\* ------------------------------------------------------------ configuration
\* config.pools / config.tunnels: tunnel -> pool name (PoolConfig.name).
Tunnels == {"t1", "t2"}
TunnelPool(t) == IF t = "t1" THEN "PoolA" ELSE "PoolB"

\* config.pools: pool id -> PoolConfig; PoolConfig.name is the display name
PoolIds == {"pool1", "pool2"}
PoolName(id) == IF id = "pool1" THEN "PoolA" ELSE "PoolB"

\* every key PoolManager.pools can get: sessions use PoolConfig.name, the
\* ping monitor uses the pool id
EntryNames == PoolIds \cup {PoolName(id) : id \in PoolIds}

\* a measure_pool_ping task: not spawned, or what its connect came to
ProbeIdle == [pc |-> "idle", out |-> "none", ms |-> 0]


\* ------------------------------------------------------------------- state
VARIABLES
  now,       \* wall clock (Utc::now), ms
  ticks,     \* number of clock advances so far
  lines,     \* number of lines read so far, all pumps
  dbOn,      \* database: Option<Arc<Database>> is Some (no --nodata)
  hpc,       \* handle_connection position, per session
  route,     \* tunnel that accepted the session
  registry,  \* MinerManager.miners: keys present
  minfo,     \* the MinerInfo behind each Arc<RwLock<MinerInfo>> ever created
  mlock,     \* holders of each session's RwLock
  mq,        \* FIFO of tasks waiting for each session's RwLock
  cpc,       \* client->pool pump position
  cline,     \* line held by the client->pool pump
  ppc,       \* pool->client pump position
  pline,     \* line held by the pool->client pump
  psub,      \* submit_time computed by the pool->client pump (proxy.rs:265)
  cin,       \* lines read from the client socket
  pout,      \* lines written to the pool socket
  pin,       \* lines read from the pool socket
  cout,      \* lines written to the client socket
  pools,     \* PoolManager.pools: name -> PoolMetrics
  enq,       \* every ShareRecord handed to a spawned save_share task, in order
  pend,      \* indices of enq whose save_share has not run yet
  shares,    \* rows of the shares table, in insertion order
  snaps,     \* per session: MinerInfo values handed to save_miner, in order
  minersDb,  \* rows of the miners table, keyed by <<wallet, ip, miner_name>>
  probe,     \* measure_pool_ping tasks of each configured pool
  pingLog,   \* per pool entry: every value passed to add_ping_sample, in order
  accLog,    \* per pool entry: every value passed to add_accept_time, in order
  calc,      \* a call of a function on its own: argument and, once returned, result
  boot,      \* main: its position, its exit code, and the start_tunnel tasks
  api        \* handle_metrics and update_system_metrics: positions, guards held

vars == <<now, ticks, lines, dbOn, hpc, route, registry, minfo, mlock, mq,
          cpc, cline, ppc, pline, psub, cin, pout, pin, cout,
          pools, enq, pend, shares, snaps, minersDb, probe, pingLog, accLog,
          calc, boot, api>>

clockVars  == <<now, ticks>>
connVars   == <<hpc, route>>
lockVars   == <<mlock, mq>>
c2pVars    == <<cpc, cline, cin, pout>>
p2cVars    == <<ppc, pline, psub, pin, cout>>
storeVars  == <<enq, pend, shares, snaps, minersDb>>
monVars    == <<probe, pingLog, accLog>>
envVars    == <<dbOn, calc, boot, api>>

NoLine == CGarbage

\* ------------------------------------------------------------- arithmetic
RECURSIVE Gcd(_, _)
Gcd(a, b) == IF b = 0 THEN a ELSE Gcd(b, a % b)

\* f64 values as exact rationals in lowest terms.
Rat(n, d) == LET g == Gcd(n, d) IN IF n = 0 THEN <<0, 1>> ELSE <<n \div g, d \div g>>
RatZero   == <<0, 1>>
RatAdd(x, y)   == Rat(x[1] * y[2] + y[1] * x[2], x[2] * y[2])
RatScale(x, n, d) == Rat(x[1] * n, x[2] * d)

RECURSIVE SumSeq(_)
SumSeq(q) == IF q = <<>> THEN 0 ELSE Head(q) + SumSeq(Tail(q))

RetainAll(q, cutoff) == q

RECURSIVE Retain(_, _)
\* Vec::retain(|t| t > cutoff)
Retain(q, cutoff) ==
  IF q = <<>> THEN <<>>
  ELSE IF Head(q) > cutoff THEN <<Head(q)>> \o Retain(Tail(q), cutoff)
       ELSE Retain(Tail(q), cutoff)

\* DateTime::timestamp(): whole seconds
Timestamp(t) == t \div 1000

SplitNone(u) == u

RECURSIVE SplitFirst(_)
\* username.split('.') -> parts[0]
SplitFirst(u) ==
  IF u = <<>> \/ Head(u) = "." THEN <<>>
  ELSE <<Head(u)>> \o SplitFirst(Tail(u))

NameUnknown == <<"U", "n", "k", "n", "o", "w", "n">>

ClientIp(s)   == "10.0.0.1"
ClientPort(s) == s

\* ------------------------------------------------------------ MinerInfo
\* the three Utc::now() of MinerInfo::new in the order the struct literal
\* evaluates them: last_seen, then connected_at, then last_share_time
NewStamps(t1, t2, t3) ==
  [last_seen |-> t1, connected_at |-> t2, last_share_time |-> t3]

\* MinerInfo::new; t1 <= t2 <= t3 are its three successive clock readings
MinerNew(ip, port, pool, t1, t2, t3) ==
  [wallet |-> <<>>, name |-> NameUnknown, ip |-> ip, port |-> port,
   pool_name |-> pool, job_id |-> <<>>,
   shares_accepted |-> 0, shares_rejected |-> 0,
   last_seen |-> NewStamps(t1, t2, t3).last_seen,
   connected_at |-> NewStamps(t1, t2, t3).connected_at,
   bytes_download |-> 0, bytes_upload |-> 0,
   packets_sent |-> 0, packets_received |-> 0,
   last_share_time |-> NewStamps(t1, t2, t3).last_share_time,
   share_times |-> <<>>,
   current_hashrate |-> RatZero, average_hashrate |-> RatZero,
   difficulty |-> DefaultDifficulty]

\* MinerInfo::calculate_hashrate
CalculateHashrate(m, t) ==
  LET kept == Retain(m.share_times, t - WindowMs)
      m1   == [m EXCEPT !.share_times = kept]
  IN IF Len(kept) < 2
       THEN [m1 EXCEPT !.current_hashrate = RatZero]
       ELSE LET total == Timestamp(kept[Len(kept)]) - Timestamp(kept[1])
                cur   == IF total > 0
                           THEN Rat(Len(kept) * m1.difficulty, total)
                           ELSE m1.current_hashrate
                avg   == IF m1.average_hashrate = RatZero
                           THEN cur
                           ELSE RatAdd(RatScale(m1.average_hashrate, 9, 10),
                                       RatScale(cur, 1, 10))
            IN [m1 EXCEPT !.current_hashrate = cur, !.average_hashrate = avg]

\* ------------------------------------------------------------ PoolMetrics
\* PoolMetrics::new
PoolNew(name, t) ==
  [name |-> name, current_ping |-> 0, average_ping |-> RatZero,
   ping_samples |-> <<>>, avg_accept_time |-> RatZero, accept_times |-> <<>>,
   shares_accepted |-> 0, shares_rejected |-> 0, last_ping_time |-> t]

PushCappedDropNewest(q, x) ==
  IF Len(q) >= WindowCap THEN q ELSE Append(q, x)

\* Vec::push then remove(0) when longer than the cap
PushCapped(q, x) ==
  LET q1 == Append(q, x) IN IF Len(q1) > WindowCap THEN Tail(q1) ELSE q1

\* PoolMetrics::add_ping_sample; t is its Utc::now()
AddPingSample(pm, x, t) ==
  LET w == PushCapped(pm.ping_samples, x)
  IN [pm EXCEPT !.current_ping = x, !.ping_samples = w,
                !.average_ping = Rat(SumSeq(w), Len(w)), !.last_ping_time = t]

AddAcceptTimeMeanFirst(pm, x) ==
  LET q == Append(pm.accept_times, x)
  IN [pm EXCEPT !.accept_times = PushCapped(pm.accept_times, x),
                !.avg_accept_time = Rat(SumSeq(q), Len(q))]

\* PoolMetrics::add_accept_time
AddAcceptTime(pm, x) ==
  LET w == PushCapped(pm.accept_times, x)
  IN [pm EXCEPT !.accept_times = w, !.avg_accept_time = Rat(SumSeq(w), Len(w))]

\* PoolManager::get_or_create: entry(name).or_insert_with(PoolMetrics::new)
GetOrCreateFresh(reg, name, t) ==
  [n \in DOMAIN reg \cup {name} |-> IF n = name THEN PoolNew(name, t) ELSE reg[n]]

GetOrCreate(reg, name, t) ==
  IF name \in DOMAIN reg THEN reg
  ELSE [n \in DOMAIN reg \cup {name} |-> IF n = name THEN PoolNew(name, t) ELSE reg[n]]

\* ------------------------------------------------------- message observers
\* msg.get("method").and_then(|m| m.as_str())
MethodOf(l) == IF "method" \in l.has /\ l.method.ty = "str" THEN l.method.m ELSE "none"

\* msg.get("params").and_then(|p| p.as_array()) then params.get(i).and_then(as_str)
ParamStr(l, i) ==
  IF "params" \in l.has /\ l.paramsArr /\ i <= Len(l.params) /\ l.params[i].ty = "str"
    THEN <<TRUE, l.params[i].s>> ELSE <<FALSE, <<>>>>

\* ... params.get(i).and_then(|d| d.as_f64())
ParamNum(l, i) ==
  IF "params" \in l.has /\ l.paramsArr /\ i <= Len(l.params) /\ l.params[i].ty = "num"
    THEN <<TRUE, l.params[i].n>> ELSE <<FALSE, 0>>

\* parse_client_message, the part run under the session write lock
ClientEffects(m, l, t) ==
  LET meth == MethodOf(l)
      m1 == IF meth = "mining.authorize" /\ ParamStr(l, 1)[1]
              THEN [m EXCEPT !.wallet = SplitFirst(ParamStr(l, 1)[2]),
                             !.name = ParamStr(l, 1)[2]]
            ELSE IF meth = "mining.submit"
              THEN [m EXCEPT !.job_id = IF ParamStr(l, 2)[1] THEN ParamStr(l, 2)[2] ELSE @,
                             !.last_share_time = t,
                             !.share_times = Append(@, t)]
            ELSE m
  IN [m1 EXCEPT !.last_seen = t]

\* parse_pool_message: the method match (mining.notify, mining.set_difficulty)
PoolMethodEffects(m, l) ==
  LET meth == MethodOf(l)
  IN IF meth = "mining.notify" /\ ParamStr(l, 1)[1]
       THEN [m EXCEPT !.job_id = ParamStr(l, 1)[2]]
     ELSE IF meth = "mining.set_difficulty" /\ ParamNum(l, 1)[1]
       THEN [m EXCEPT !.difficulty = ParamNum(l, 1)[2]]
     ELSE m

IsReplyOrError(l) ==
  "id" \in l.has /\ (("result" \in l.has /\ l.result.ty = "bool")
                     \/ ("error" \in l.has /\ l.error.ty # "null"))

\* msg.get("id").is_some() && msg.get("result").as_bool().is_some()
IsBoolReply(l) == "id" \in l.has /\ "result" \in l.has /\ l.result.ty = "bool"

SubmitTimeSinceConnect(m, t) == t - m.connected_at

\* (chrono::Utc::now() - miner.last_share_time).num_milliseconds()
SubmitTime(m, t) == t - m.last_share_time

PoolShareSessionStreak(m, l, t) ==
  IF l.result.b
    THEN CalculateHashrate([m EXCEPT !.shares_accepted = @ + 1], t)
    ELSE [m EXCEPT !.shares_rejected = @ + 1, !.shares_accepted = 0]

\* parse_pool_message up to the await of the pool-metrics lock: the session
\* counter and, for an accept, calculate_hashrate
PoolShareSession(m, l, t) ==
  IF l.result.b
    THEN CalculateHashrate([m EXCEPT !.shares_accepted = @ + 1], t)
    ELSE [m EXCEPT !.shares_rejected = @ + 1]

PoolShareMetricsSampleBoth(pm, l, sub) ==
  AddAcceptTime(IF l.result.b THEN [pm EXCEPT !.shares_accepted = @ + 1]
                ELSE [pm EXCEPT !.shares_rejected = @ + 1], sub)

\* parse_pool_message under the pool-metrics write lock
PoolShareMetrics(pm, l, sub) ==
  IF l.result.b
    THEN AddAcceptTime([pm EXCEPT !.shares_accepted = @ + 1], sub)
    ELSE [pm EXCEPT !.shares_rejected = @ + 1]

\* ShareRecord built in parse_pool_message
MakeShare(m, pool, l, t) ==
  [wallet |-> m.wallet, miner_name |-> m.name, ip |-> m.ip, port |-> m.port,
   pool_name |-> pool, job_id |-> m.job_id, accepted |-> l.result.b,
   difficulty |-> m.difficulty, submitted_at |-> t]

\* The bytes a pump writes to the opposite peer: line.as_bytes()
RelayStripped(l) == [l EXCEPT !.len = @ - 1]
Relay(l) == l

\* What a pump does with a line it has read: write_all comes first.
PumpAfterReadCount == "count"
PumpAfterRead == "write"

\* read_line(&mut line) appends to a String: bytes that are not UTF-8 make
\* it return Err(InvalidData), which the pump's match arm treats as the end
\* of the stream.
ReadLine(l) == IF l.utf8 THEN PumpAfterRead ELSE "eof"

\* handle_connection after remove_miner: save_miner only for an entry that
\* was found, and only with a database.
AfterRemoveNoSave(found, db) == "closed"
AfterRemove(found, db) == IF found /\ db THEN "tdlock" ELSE "closed"

\* -------------------------------------------------------------------- Init
NoCalc == [pc |-> "none"]

InitState(c) ==
  /\ now = 0 /\ ticks = 0 /\ lines = 0
  /\ dbOn \in c.db
  /\ hpc = [s \in c.sessions |-> "idle"]
  /\ route = [s \in c.sessions |-> "t1"]
  /\ registry = {}
  /\ minfo = [s \in {} |-> 0]
  /\ mlock = [s \in c.sessions |-> {}]
  /\ mq = [s \in c.sessions |-> <<>>]
  /\ cpc = [s \in c.sessions |-> "off"]
  /\ ppc = [s \in c.sessions |-> "off"]
  /\ cline = [s \in c.sessions |-> NoLine]
  /\ pline = [s \in c.sessions |-> NoLine]
  /\ psub = [s \in c.sessions |-> 0]
  /\ cin = [s \in c.sessions |-> <<>>]
  /\ pout = [s \in c.sessions |-> <<>>]
  /\ pin = [s \in c.sessions |-> <<>>]
  /\ cout = [s \in c.sessions |-> <<>>]
  /\ pools = [n \in {} |-> 0]
  /\ enq = <<>> /\ pend = {} /\ shares = <<>>
  /\ snaps = [s \in c.sessions |-> <<>>]
  /\ minersDb = [k \in {} |-> 0]
  /\ probe = [id \in c.pools |->
               [i \in 1..(IF "probes" \in DOMAIN c THEN c.probes ELSE 1) |-> ProbeIdle]]
  /\ pingLog = [n \in EntryNames |-> <<>>]
  /\ accLog = [n \in EntryNames |-> <<>>]
  /\ api = [pc |-> "idle", sys |-> {}, pools |-> {}, pool |-> "", miners |-> {},
            miner |-> 0, rpc |-> "idle"]

\* main waits for ctrl_c with every tunnel of the configuration listening
Running(c) ==
  [pc |-> "run", code |-> 0, todo |-> {},
   task |-> [t \in c.tunnels |-> "listening"],
   known |-> [t \in c.tunnels |-> TRUE], free |-> [t \in c.tunnels |-> TRUE]]

Init(c) == InitState(c) /\ calc = NoCalc /\ boot = Running(c)

\* ------------------------------------------------------- session RwLock
\* tokio::sync::RwLock grants in FIFO order: a request is served at once only
\* when nobody waits and the lock is compatible; otherwise it queues.
WriteFree(s)   == mlock[s] = {} /\ mq[s] = <<>>
ReadFree(s)    == mlock[s] \subseteq {"td", "http"} /\ mq[s] = <<>>
WriteTurn(s, who) == mlock[s] = {} /\ mq[s] # <<>> /\ Head(mq[s]) = who
ReadTurn(s, who)  == mlock[s] \subseteq {"td", "http"} /\ mq[s] # <<>> /\ Head(mq[s]) = who
Enqueue(s, who) == mq' = [mq EXCEPT ![s] = Append(@, who)]
Dequeue(s)      == mq' = [mq EXCEPT ![s] = Tail(@)]

\* --------------------------------------------------------------- the clock
\* Utc::now() as read by an action: the last value read, or a later one.
\* Time that passes unobserved between two reads is not a state of its own.
ClockAt(c, t, k) ==
  {t} \cup (IF k < c.maxTicks THEN {t + d : d \in c.steps} ELSE {})

Clock(c) == ClockAt(c, now, ticks)

\* clock advances counted after a reading u that follows the reading t
Used(t, u, k) == IF u = t THEN k ELSE k + 1

ReadClock(t) ==
  /\ now' = t
  /\ ticks' = IF t = now THEN ticks ELSE ticks + 1

\* -------------------------------------------------- start_tunnel / handler
\* listener.accept() returns a client; handle_connection is spawned and starts
\* dialing the tunnel's pool.  Keys (ip:port) are handed out in accept order.
Accept(c, s) ==
  /\ hpc[s] = "idle"
  /\ IF s = 1 THEN TRUE ELSE hpc[s - 1] # "idle"
  /\ \E t \in c.tunnels : route' = [route EXCEPT ![s] = t]
  /\ hpc' = [hpc EXCEPT ![s] = "dial"]
  /\ UNCHANGED <<clockVars, lines, envVars, monVars, registry, minfo, lockVars, c2pVars,
                 p2cVars, pools, storeVars>>

DialFailRegistered(s) ==
  /\ hpc[s] = "dial"
  /\ hpc' = [hpc EXCEPT ![s] = "failed"]
  /\ registry' = registry \cup {s}
  /\ minfo' = [k \in DOMAIN minfo \cup {s} |->
                 IF k = s THEN MinerNew(ClientIp(s), ClientPort(s),
                                        TunnelPool(route[s]), now, now, now)
                 ELSE minfo[k]]
  /\ UNCHANGED <<clockVars, lines, envVars, monVars, route, lockVars,
                 c2pVars, p2cVars, pools, storeVars>>

\* TcpStream::connect(&pool_addr).await? returns Err: the handler returns.
DialFail(s) ==
  /\ hpc[s] = "dial"
  /\ hpc' = [hpc EXCEPT ![s] = "failed"]
  /\ UNCHANGED <<clockVars, lines, envVars, monVars, route, registry, minfo, lockVars,
                 c2pVars, p2cVars, pools, storeVars>>

\* connect succeeded: MinerInfo::new, add_miner, both pumps spawned.
Register(c, s) ==
  /\ hpc[s] = "dial"
  /\ hpc' = [hpc EXCEPT ![s] = "run"]
  /\ \E t1 \in Clock(c) :
       \E t2 \in ClockAt(c, t1, Used(now, t1, ticks)) :
         \E t3 \in ClockAt(c, t2, Used(t1, t2, Used(now, t1, ticks))) :
           /\ now' = t3
           /\ ticks' = Used(t2, t3, Used(t1, t2, Used(now, t1, ticks)))
           /\ minfo' = [k \in DOMAIN minfo \cup {s} |->
                          IF k = s THEN MinerNew(ClientIp(s), ClientPort(s),
                                                 TunnelPool(route[s]), t1, t2, t3)
                          ELSE minfo[k]]
  /\ registry' = registry \cup {s}
  /\ cpc' = [cpc EXCEPT ![s] = "read"]
  /\ ppc' = [ppc EXCEPT ![s] = "read"]
  /\ UNCHANGED <<lines, envVars, monVars, route, lockVars, cline, cin, pout,
                 pline, psub, pin, cout, pools, storeVars>>

PumpDone(pc) == pc \in {"eof", "werr"}

TeardownKeepsKey(s) ==
  /\ hpc[s] = "run"
  /\ (PumpDone(cpc[s]) \/ PumpDone(ppc[s]))
  /\ hpc' = [hpc EXCEPT ![s] = AfterRemove(s \in registry, dbOn)]
  /\ UNCHANGED <<clockVars, lines, envVars, monVars, route, registry, minfo, lockVars,
                 c2pVars, p2cVars, pools, storeVars>>

TeardownByIp(s) ==
  /\ hpc[s] = "run"
  /\ (PumpDone(cpc[s]) \/ PumpDone(ppc[s]))
  /\ registry' = registry \ {r \in registry : ClientIp(r) = ClientIp(s)}
  /\ hpc' = [hpc EXCEPT ![s] = AfterRemove(s \in registry, dbOn)]
  /\ UNCHANGED <<clockVars, lines, envVars, monVars, route, minfo, lockVars, c2pVars,
                 p2cVars, pools, storeVars>>

\* tokio::select! on the two JoinHandles returns, then remove_miner.
Teardown(s) ==
  /\ hpc[s] = "run"
  /\ (PumpDone(cpc[s]) \/ PumpDone(ppc[s]))
  /\ registry' = registry \ {s}
  /\ hpc' = [hpc EXCEPT ![s] = AfterRemove(s \in registry, dbOn)]
  /\ UNCHANGED <<clockVars, lines, envVars, monVars, route, minfo, lockVars, c2pVars,
                 p2cVars, pools, storeVars>>

\* save_miner binds the MinerInfo fields, then awaits the INSERT.
TdSnapshot(s) ==
  /\ mlock' = [mlock EXCEPT ![s] = @ \cup {"td"}]
  /\ snaps' = [snaps EXCEPT ![s] = Append(@, minfo[s])]
  /\ hpc' = [hpc EXCEPT ![s] = "saving"]

\* miner_arc.read().await
TdLock(s) ==
  /\ hpc[s] = "tdlock"
  /\ IF ReadFree(s)
       THEN TdSnapshot(s) /\ UNCHANGED mq
       ELSE /\ Enqueue(s, "td")
            /\ hpc' = [hpc EXCEPT ![s] = "tdwait"]
            /\ UNCHANGED <<mlock, snaps>>
  /\ UNCHANGED <<clockVars, lines, envVars, monVars, route, registry, minfo, c2pVars,
                 p2cVars, pools, enq, pend, shares, minersDb>>

TdGrant(s) ==
  /\ hpc[s] = "tdwait"
  /\ ReadTurn(s, "td")
  /\ Dequeue(s)
  /\ TdSnapshot(s)
  /\ UNCHANGED <<clockVars, lines, envVars, monVars, route, registry, minfo, c2pVars,
                 p2cVars, pools, enq, pend, shares, minersDb>>

\* INSERT ... ON CONFLICT(wallet, ip, miner_name) DO UPDATE
Upsert(db, m) ==
  LET k == <<m.wallet, m.ip, m.name>>
      row == [wallet |-> m.wallet, miner_name |-> m.name, ip |-> m.ip,
              pool_name |-> m.pool_name,
              shares_accepted |-> m.shares_accepted,
              shares_rejected |-> m.shares_rejected,
              bytes_download |-> m.bytes_download, bytes_upload |-> m.bytes_upload,
              packets_sent |-> m.packets_sent,
              packets_received |-> m.packets_received,
              current_hashrate |-> m.current_hashrate,
              average_hashrate |-> m.average_hashrate,
              connected_at |-> m.connected_at, last_seen |-> m.last_seen]
  IN IF k \in DOMAIN db
       THEN [db EXCEPT ![k] =
               [@ EXCEPT !.shares_accepted = @ + row.shares_accepted,
                         !.shares_rejected = @ + row.shares_rejected,
                         !.bytes_download = @ + row.bytes_download,
                         !.bytes_upload = @ + row.bytes_upload,
                         !.packets_sent = @ + row.packets_sent,
                         !.packets_received = @ + row.packets_received,
                         !.current_hashrate = row.current_hashrate,
                         !.average_hashrate = row.average_hashrate,
                         !.last_seen = row.last_seen,
                         !.pool_name = row.pool_name]]
       ELSE [j \in DOMAIN db \cup {k} |-> IF j = k THEN row ELSE db[j]]

\* the INSERT completes (or fails: `let _ =`), the read guard is dropped and
\* the handler returns.
SaveDone(s) ==
  /\ hpc[s] = "saving"
  /\ \E ok \in BOOLEAN :
       minersDb' = IF ok THEN Upsert(minersDb, snaps[s][Len(snaps[s])]) ELSE minersDb
  /\ mlock' = [mlock EXCEPT ![s] = @ \ {"td"}]
  /\ hpc' = [hpc EXCEPT ![s] = "closed"]
  /\ UNCHANGED <<clockVars, lines, envVars, monVars, route, registry, minfo, mq, c2pVars,
                 p2cVars, pools, enq, pend, shares, snaps>>


\* ------------------------------------------------------- client->pool pump
\* client_buf.read_line(&mut line).await: a line, or Ok(0) | Err(_) => break
C2PRead(c, s) ==
  /\ cpc[s] = "read"
  /\ \/ /\ lines < c.maxLines
        /\ \E l \in c.clientLines :
             /\ cin' = [cin EXCEPT ![s] = Append(@, l)]
             /\ cline' = [cline EXCEPT ![s] = IF l.utf8 THEN l ELSE NoLine]
             /\ cpc' = [cpc EXCEPT ![s] = ReadLine(l)]
        /\ lines' = lines + 1
     \/ /\ cpc' = [cpc EXCEPT ![s] = "eof"]
        /\ UNCHANGED <<cin, cline, lines>>
  /\ UNCHANGED <<clockVars, envVars, monVars, connVars, registry, minfo, lockVars, pout,
                 p2cVars, pools, storeVars>>

\* pool_writer_c2p.write_all(line.as_bytes()).await; is_err() => break
C2PWrite(s) ==
  /\ cpc[s] = "write"
  /\ \/ /\ pout' = [pout EXCEPT ![s] = Append(@, Relay(cline[s]))]
        /\ cpc' = [cpc EXCEPT ![s] = "count"]
        /\ UNCHANGED cline
     \/ /\ cpc' = [cpc EXCEPT ![s] = "werr"]
        /\ cline' = [cline EXCEPT ![s] = NoLine]
        /\ UNCHANGED pout
  /\ UNCHANGED <<clockVars, lines, envVars, monVars, connVars, registry, minfo, lockVars,
                 cin, p2cVars, pools, storeVars>>

\* miner_mgr_c2p.get_miner(&miner_key_c2p)
C2PCount(s) ==
  /\ cpc[s] = "count"
  /\ cpc' = [cpc EXCEPT ![s] = IF s \in registry THEN "clock1" ELSE "parse"]
  /\ UNCHANGED <<clockVars, lines, envVars, monVars, connVars, registry, minfo, lockVars,
                 cline, cin, pout, p2cVars, pools, storeVars>>

\* bytes_upload.fetch_add(n); packets_sent.fetch_add(1)
CountUpload(m, l) ==
  [m EXCEPT !.bytes_upload = @ + l.len, !.packets_sent = @ + 1]

C2PCounted(s) ==
  /\ minfo' = [minfo EXCEPT ![s] = CountUpload(@, cline[s])]
  /\ cpc' = [cpc EXCEPT ![s] = "parse"]

\* miner.write().await, first poll
C2PCountLock(s) ==
  /\ cpc[s] = "clock1"
  /\ IF WriteFree(s)
       THEN C2PCounted(s) /\ UNCHANGED mq
       ELSE /\ Enqueue(s, "c2p")
            /\ cpc' = [cpc EXCEPT ![s] = "cwait1"]
            /\ UNCHANGED minfo
  /\ UNCHANGED <<clockVars, lines, envVars, monVars, connVars, registry, mlock,
                 cline, cin, pout, p2cVars, pools, storeVars>>

\* miner.write().await, granted after waiting
C2PCountGrant(s) ==
  /\ cpc[s] = "cwait1"
  /\ WriteTurn(s, "c2p")
  /\ Dequeue(s)
  /\ C2PCounted(s)
  /\ UNCHANGED <<clockVars, lines, envVars, monVars, connVars, registry, mlock,
                 cline, cin, pout, p2cVars, pools, storeVars>>

\* parse_client_message: serde_json::from_str, then get_miner
C2PParse(s) ==
  /\ cpc[s] = "parse"
  /\ IF cline[s].valid /\ s \in registry
       THEN cpc' = [cpc EXCEPT ![s] = "clock2"] /\ UNCHANGED cline
       ELSE /\ cpc' = [cpc EXCEPT ![s] = "read"]
            /\ cline' = [cline EXCEPT ![s] = NoLine]
  /\ UNCHANGED <<clockVars, lines, envVars, monVars, connVars, registry, minfo, lockVars,
                 cin, pout, p2cVars, pools, storeVars>>

C2PParsed(c, s) ==
  /\ \E t \in Clock(c) :
       /\ ReadClock(t)
       /\ minfo' = [minfo EXCEPT ![s] = ClientEffects(@, cline[s], t)]
  /\ cpc' = [cpc EXCEPT ![s] = "read"]
  /\ cline' = [cline EXCEPT ![s] = NoLine]

\* miner_arc.write().await in parse_client_message, first poll
C2PParseLock(c, s) ==
  /\ cpc[s] = "clock2"
  /\ IF WriteFree(s)
       THEN C2PParsed(c, s) /\ UNCHANGED mq
       ELSE /\ Enqueue(s, "c2p")
            /\ cpc' = [cpc EXCEPT ![s] = "cwait2"]
            /\ UNCHANGED <<minfo, cline, clockVars>>
  /\ UNCHANGED <<lines, envVars, monVars, connVars, registry, mlock,
                 cin, pout, p2cVars, pools, storeVars>>

C2PParseGrant(c, s) ==
  /\ cpc[s] = "cwait2"
  /\ WriteTurn(s, "c2p")
  /\ Dequeue(s)
  /\ C2PParsed(c, s)
  /\ UNCHANGED <<lines, envVars, monVars, connVars, registry, mlock,
                 cin, pout, p2cVars, pools, storeVars>>

\* ------------------------------------------------------- pool->client pump
P2CRead(c, s) ==
  /\ ppc[s] = "read"
  /\ \/ /\ lines < c.maxLines
        /\ \E l \in c.poolLines :
             /\ pin' = [pin EXCEPT ![s] = Append(@, l)]
             /\ pline' = [pline EXCEPT ![s] = IF l.utf8 THEN l ELSE NoLine]
             /\ ppc' = [ppc EXCEPT ![s] = ReadLine(l)]
        /\ lines' = lines + 1
     \/ /\ ppc' = [ppc EXCEPT ![s] = "eof"]
        /\ UNCHANGED <<pin, pline, lines>>
  /\ UNCHANGED <<clockVars, envVars, monVars, connVars, registry, minfo, lockVars, c2pVars,
                 psub, cout, pools, storeVars>>

\* client_writer_p2c.write_all(line.as_bytes()).await; is_err() => break
P2CWrite(s) ==
  /\ ppc[s] = "write"
  /\ \/ /\ cout' = [cout EXCEPT ![s] = Append(@, Relay(pline[s]))]
        /\ ppc' = [ppc EXCEPT ![s] = "count"]
        /\ UNCHANGED pline
     \/ /\ ppc' = [ppc EXCEPT ![s] = "werr"]
        /\ pline' = [pline EXCEPT ![s] = NoLine]
        /\ UNCHANGED cout
  /\ UNCHANGED <<clockVars, lines, envVars, monVars, connVars, registry, minfo, lockVars,
                 c2pVars, psub, pin, pools, storeVars>>

P2CCount(s) ==
  /\ ppc[s] = "count"
  /\ ppc' = [ppc EXCEPT ![s] = IF s \in registry THEN "plock1" ELSE "parse"]
  /\ UNCHANGED <<clockVars, lines, envVars, monVars, connVars, registry, minfo, lockVars,
                 c2pVars, pline, psub, pin, cout, pools, storeVars>>

\* bytes_download.fetch_add(n); packets_received.fetch_add(1)
CountDownload(m, l) ==
  [m EXCEPT !.bytes_download = @ + l.len, !.packets_received = @ + 1]

P2CCounted(s) ==
  /\ minfo' = [minfo EXCEPT ![s] = CountDownload(@, pline[s])]
  /\ ppc' = [ppc EXCEPT ![s] = "parse"]

P2CCountLock(s) ==
  /\ ppc[s] = "plock1"
  /\ IF WriteFree(s)
       THEN P2CCounted(s) /\ UNCHANGED mq
       ELSE /\ Enqueue(s, "p2c")
            /\ ppc' = [ppc EXCEPT ![s] = "pwait1"]
            /\ UNCHANGED minfo
  /\ UNCHANGED <<clockVars, lines, envVars, monVars, connVars, registry, mlock, c2pVars,
                 pline, psub, pin, cout, pools, storeVars>>

P2CCountGrant(s) ==
  /\ ppc[s] = "pwait1"
  /\ WriteTurn(s, "p2c")
  /\ Dequeue(s)
  /\ P2CCounted(s)
  /\ UNCHANGED <<clockVars, lines, envVars, monVars, connVars, registry, mlock, c2pVars,
                 pline, psub, pin, cout, pools, storeVars>>

\* parse_pool_message: serde_json::from_str, then get_miner
P2CParse(s) ==
  /\ ppc[s] = "parse"
  /\ IF pline[s].valid /\ s \in registry
       THEN ppc' = [ppc EXCEPT ![s] = "plock2"] /\ UNCHANGED pline
       ELSE /\ ppc' = [ppc EXCEPT ![s] = "read"]
            /\ pline' = [pline EXCEPT ![s] = NoLine]
  /\ UNCHANGED <<clockVars, lines, envVars, monVars, connVars, registry, minfo, lockVars,
                 c2pVars, psub, pin, cout, pools, storeVars>>

\* parse_pool_message under the session write lock, up to the first await
\* inside it (pool_metrics.write().await) or, with no share to count, to the end
P2CParsed(c, s) ==
  LET l  == pline[s]
      m1 == PoolMethodEffects(minfo[s], l)
  IN \E t \in Clock(c) :
       /\ ReadClock(t)
       /\ IF IsBoolReply(l)
            THEN /\ psub' = [psub EXCEPT ![s] = SubmitTime(m1, t)]
                 /\ minfo' = [minfo EXCEPT ![s] = PoolShareSession(m1, l, t)]
                 /\ pools' = GetOrCreate(pools, TunnelPool(route[s]), t)
                 /\ mlock' = [mlock EXCEPT ![s] = {"p2c"}]
                 /\ ppc' = [ppc EXCEPT ![s] = "pool"]
                 /\ UNCHANGED pline
            ELSE /\ minfo' = [minfo EXCEPT ![s] = [m1 EXCEPT !.last_seen = t]]
                 /\ ppc' = [ppc EXCEPT ![s] = "read"]
                 /\ pline' = [pline EXCEPT ![s] = NoLine]
                 /\ UNCHANGED <<psub, pools, mlock>>

P2CParseLock(c, s) ==
  /\ ppc[s] = "plock2"
  /\ IF WriteFree(s)
       THEN P2CParsed(c, s) /\ UNCHANGED mq
       ELSE /\ Enqueue(s, "p2c")
            /\ ppc' = [ppc EXCEPT ![s] = "pwait2"]
            /\ UNCHANGED <<minfo, pline, psub, pools, mlock, clockVars>>
  /\ UNCHANGED <<lines, envVars, monVars, connVars, registry, c2pVars,
                 pin, cout, storeVars>>

P2CParseGrant(c, s) ==
  /\ ppc[s] = "pwait2"
  /\ WriteTurn(s, "p2c")
  /\ Dequeue(s)
  /\ P2CParsed(c, s)
  /\ UNCHANGED <<lines, envVars, monVars, connVars, registry, c2pVars,
                 pin, cout, storeVars>>

\* pool_metrics.write().await granted: the pool counters, the ShareRecord
\* handed to a spawned save_share task, last_seen, and the session lock dropped
P2CPool(c, s) ==
  /\ ppc[s] = "pool"
  /\ api.pool # TunnelPool(route[s])
  /\ \E t \in Clock(c) :
       LET name == TunnelPool(route[s])
       IN /\ ReadClock(t)
          /\ pools' = [pools EXCEPT ![name] = PoolShareMetrics(@, pline[s], psub[s])]
          /\ accLog' = IF pline[s].result.b
                         THEN [accLog EXCEPT ![name] = Append(@, psub[s])]
                         ELSE accLog
          /\ IF dbOn
               THEN /\ enq' = Append(enq, MakeShare(minfo[s], name, pline[s], t))
                    /\ pend' = pend \cup {Len(enq) + 1}
               ELSE UNCHANGED <<enq, pend>>
          /\ minfo' = [minfo EXCEPT ![s].last_seen = t]
  /\ mlock' = [mlock EXCEPT ![s] = {}]
  /\ ppc' = [ppc EXCEPT ![s] = "read"]
  /\ pline' = [pline EXCEPT ![s] = NoLine]
  /\ psub' = [psub EXCEPT ![s] = 0]
  /\ UNCHANGED <<lines, envVars, probe, pingLog, connVars, registry, mq, c2pVars,
                 pin, cout, shares, snaps, minersDb>>

\* ------------------------------------------------------------ persistence
SaveShareTwice(i) ==
  /\ i \in pend
  /\ pend' = pend \ {i}
  /\ \E ok \in BOOLEAN :
       shares' = IF ok THEN Append(Append(shares, enq[i]), enq[i]) ELSE shares
  /\ UNCHANGED <<clockVars, lines, envVars, monVars, connVars, registry, minfo, lockVars,
                 c2pVars, p2cVars, pools, enq, snaps, minersDb>>

SaveShareEndsPump(i) ==
  /\ i \in pend
  /\ pend' = pend \ {i}
  /\ \E ok \in BOOLEAN :
       /\ shares' = IF ok THEN Append(shares, enq[i]) ELSE shares
       /\ ppc' = IF ok THEN ppc ELSE [ppc EXCEPT ![enq[i].port] = "werr"]
  /\ UNCHANGED <<clockVars, lines, envVars, monVars, connVars, registry, minfo, lockVars,
                 c2pVars, pline, psub, pin, cout, pools, enq, snaps, minersDb>>

\* a spawned task runs db.save_share(share): the row is appended, or the
\* INSERT fails and the record is dropped (`let _ =`)
SaveShare(i) ==
  /\ i \in pend
  /\ pend' = pend \ {i}
  /\ \E ok \in BOOLEAN : shares' = IF ok THEN Append(shares, enq[i]) ELSE shares
  /\ UNCHANGED <<clockVars, lines, envVars, monVars, connVars, registry, minfo, lockVars,
                 c2pVars, p2cVars, pools, enq, snaps, minersDb>>

\* ---------------------------------------------------------- format_hashrate
\* A hashrate n * 1000^k / d H/s (k of either sign), kept as the three
\* integers so that the largest inputs stay within the integers of the
\* checker; n is below 10^9.
Hashrate(n, d, k) == [n |-> n, d |-> d, k |-> k]

RECURSIVE Pow(_, _)
Pow(b, e) == IF e = 0 THEN 1 ELSE b * Pow(b, e - 1)

\* value >= c, for c up to 1000
Ge(v, c) ==
  IF v.k >= 1 /\ v.n >= v.d THEN TRUE
  ELSE IF v.k >= 0 THEN v.n * Pow(1000, v.k) >= c * v.d
  ELSE IF v.k < -3 THEN FALSE
  ELSE (v.n \div Pow(1000, -v.k)) >= c * v.d

\* value /= 1000.0
Div1000(v) == [v EXCEPT !.k = @ - 1]

Units == <<"H/s", "KH/s", "MH/s", "GH/s", "TH/s", "PH/s">>

\* while value >= 1000.0 && unit_index < units.len() - 1
RECURSIVE ScaleLoop(_, _)
ScaleLoop(value, unit_index) ==
  IF Ge(value, 1000) /\ unit_index < Len(Units) - 1
    THEN ScaleLoop(Div1000(value), unit_index + 1)
    ELSE [value |-> value, unit_index |-> unit_index]

\* {:.prec}: the decimal nearest to the value, ties to even; the result is
\* the integer that the printed digits spell without the point
Rounded(p, q) ==
  LET f == p \div q
      r == p % q
  IN IF r < q - r THEN f
     ELSE IF r > q - r THEN f + 1
     ELSE IF f % 2 = 0 THEN f ELSE f + 1

\* value * 10^prec as a fraction of integers
Num(v, prec) == v.n * Pow(10, prec) * (IF v.k > 0 THEN Pow(1000, v.k) ELSE 1)
Den(v) == v.d * (IF v.k < 0 THEN Pow(1000, -v.k) ELSE 1)

FixedPoint(v, prec) == Rounded(Num(v, prec), Den(v))

\* the precision of the format! chosen by the if / else if / else
PrecisionTwo(value) == 2
Precision(value) == IF Ge(value, 100) THEN 0 ELSE IF Ge(value, 10) THEN 1 ELSE 2

\* the returned String: digits (with prec of them after the point), a space
\* and the unit; "0 H/s" is digits 0 with prec 0
FormatHashrate(hashrate) ==
  IF hashrate.n = 0
    THEN [digits |-> 0, prec |-> 0, unit |-> "H/s"]
    ELSE LET r == ScaleLoop(hashrate, 0)
             prec == Precision(r.value)
         IN [digits |-> FixedPoint(r.value, prec), prec |-> prec,
             unit |-> Units[r.unit_index + 1]]

\* Hashrates the function is called with: multiples of 1000^k, whole numbers
\* around the roll-over of a unit, and fractions.  No input lies halfway
\* between two printable decimals.
FmtSmall == {1, 2, 9, 10, 12, 99, 100, 250, 999, 1000, 1500, 2000}
FmtWhole == {9996, 99960, 999499, 999501, 999999, 12345000, 123456789}
FmtFrac  == {<<1, 2>>, <<1, 4>>, <<1, 1000>>, <<2499, 25>>, <<19999, 20>>, <<2001, 2>>}

FmtInputs ==
  {Hashrate(0, 1, 0)}
    \cup {Hashrate(n, 1, k) : n \in FmtSmall, k \in 0..MaxScale}
    \cup {Hashrate(n, 1, 0) : n \in FmtWhole}
    \cup {Hashrate(f[1], f[2], 0) : f \in FmtFrac}

NoCfg ==
  [sessions |-> {}, tunnels |-> {}, pools |-> {}, db |-> {FALSE},
   clientLines |-> {}, poolLines |-> {}, maxLines |-> 0, steps |-> {},
   maxTicks |-> 0]

InitFmt ==
  /\ InitState(NoCfg) /\ boot = Running(NoCfg)
  /\ \E h \in FmtInputs : calc = [pc |-> "call", arg |-> h]

Format ==
  /\ calc.pc = "call"
  /\ calc' = [pc |-> "ret", arg |-> calc.arg, ret |-> FormatHashrate(calc.arg)]
  /\ UNCHANGED <<clockVars, lines, dbOn, boot, api, monVars, connVars, registry,
                 minfo, lockVars, c2pVars, p2cVars, pools, storeVars>>

SpecFmt == InitFmt /\ [][Format]_vars

\* ------------------------------------------------------- calculate_hashrate
\* Submit times (ms) in the order they were pushed, around a second's and
\* the window's edge, and the clock readings of the call.
RateTimes == {0, 999, 1000, 30000, 60000, 600000}
RateNows  == {60000, 600000, 660000}

RateShareTimes ==
  {q \in UNION {[1..n -> RateTimes] : n \in 0..RateLen} :
     \A i \in 1..(Len(q) - 1) : q[i] <= q[i + 1]}

\* a session with submits behind it; its current_hashrate is 0 or the 7 H/s
\* of an earlier call
InitRate ==
  /\ InitState(NoCfg) /\ boot = Running(NoCfg)
  /\ \E q \in RateShareTimes, t \in RateNows, d \in {DefaultDifficulty, 1024},
        r \in {RatZero, <<7, 1>>} :
       /\ q # <<>> => q[Len(q)] <= t
       /\ calc = [pc |-> "call", t |-> t,
                  arg |-> [MinerNew("10.0.0.1", 1, "PoolA", 0, 0, 0) EXCEPT
                             !.share_times = q, !.difficulty = d,
                             !.current_hashrate = r, !.average_hashrate = r]]

Calculate ==
  /\ calc.pc = "call"
  /\ calc' = [pc |-> "ret", t |-> calc.t, arg |-> calc.arg,
              ret |-> CalculateHashrate(calc.arg, calc.t)]
  /\ UNCHANGED <<clockVars, lines, dbOn, boot, api, monVars, connVars, registry,
                 minfo, lockVars, c2pVars, p2cVars, pools, storeVars>>

SpecRate == InitRate /\ [][Calculate]_vars

\* ------------------------------------------------------------------- Next
\* A configuration fixes the sessions, the tunnels, the lines the peers may
\* send and the clock's steps.
Next(c) ==
  \/ \E s \in c.sessions :
       \/ Accept(c, s) \/ DialFail(s) \/ Register(c, s)
       \/ Teardown(s) \/ TdLock(s) \/ TdGrant(s) \/ SaveDone(s)
       \/ C2PRead(c, s) \/ C2PWrite(s) \/ C2PCount(s) \/ C2PCountLock(s)
       \/ C2PCountGrant(s) \/ C2PParse(s) \/ C2PParseLock(c, s)
       \/ C2PParseGrant(c, s)
       \/ P2CRead(c, s) \/ P2CWrite(s) \/ P2CCount(s) \/ P2CCountLock(s)
       \/ P2CCountGrant(s) \/ P2CParse(s) \/ P2CParseLock(c, s)
       \/ P2CParseGrant(c, s) \/ P2CPool(c, s)
  \/ \E i \in 1..Len(enq) : SaveShare(i)

\* One session through one tunnel: authorize and submit from the client,
\* accept, reject and error replies from the pool, the clock advancing by 40 ms.
OneCfg ==
  [sessions |-> {1}, tunnels |-> {"t1"}, pools |-> {"pool1"}, db |-> BOOLEAN,
   clientLines |-> {CAuth, CSubmit}, poolLines |-> {PAccept, PReject, PError},
   maxLines |-> OneLines, steps |-> {40}, maxTicks |-> OneTicks]

Spec == Init(OneCfg) /\ [][Next(OneCfg)]_vars

\* One session whose client submits with and without a job id while the
\* pool announces another job and accepts; the clock advances by 40 ms.
JobCfg ==
  [sessions |-> {1}, tunnels |-> {"t1"}, pools |-> {"pool1"}, db |-> {TRUE},
   clientLines |-> {CSubmit, CSubmitBare}, poolLines |-> {PNotify, PAccept},
   maxLines |-> JobLines, steps |-> {40}, maxTicks |-> JobTicks]

SpecJob == Init(JobCfg) /\ [][Next(JobCfg)]_vars

\* ------------------------------------------------------------ ping monitor
\* The k-th connect of a pool that is answered (accepted or refused) takes
\* k ms, the k-th reply latency is k ms: every pushed sample is distinct.
Latency(k) == k

\* what tokio::time::timeout(5 s, TcpStream::connect(addr)).await came to
ConnectOutcomes == {"ok", "refused", "timeout"}

\* timeout(..).await.is_ok(): the connect future completed in time, with a
\* stream or with an io::Error
TimeoutIsOk(out) == out \in {"ok", "refused"}

\* the tasks of a pool that have not ended
InFlight(id) == {i \in DOMAIN probe[id] : probe[id][i].pc # "idle"}

\* interval.tick().await returns: one measure_pool_ping task per configured
\* pool is spawned, named by the pool's key in config.pools, whatever became
\* of the tasks spawned before
MonitorTick(c) ==
  /\ \A id \in c.pools :
       /\ InFlight(id) # DOMAIN probe[id]
       /\ Len(pingLog[id]) + Cardinality(InFlight(id)) < c.maxPushes
  /\ \E t \in Clock(c) : ReadClock(t)
  /\ probe' = [id \in c.pools |->
                 LET i == CHOOSE j \in DOMAIN probe[id] \ InFlight(id) : TRUE
                 IN [probe[id] EXCEPT ![i] = [pc |-> "connect", out |-> "none",
                                              ms |-> 0]]]
  /\ UNCHANGED <<lines, envVars, connVars, registry, minfo, lockVars, c2pVars,
                 p2cVars, pools, storeVars, pingLog, accLog>>

\* the connect settles, or the 5 s timer fires first and the task ends
ProbeConnect(c, id) ==
  \E i \in DOMAIN probe[id], out \in ConnectOutcomes :
    /\ probe[id][i].pc = "connect"
    /\ TimeoutIsOk(out) => Latency(Len(pingLog[id]) + 1) < PingTimeoutMs
    /\ probe' = [probe EXCEPT ![id][i] =
                  IF TimeoutIsOk(out)
                    THEN [pc |-> "push", out |-> out,
                          ms |-> Latency(Len(pingLog[id]) + 1)]
                    ELSE ProbeIdle]
  /\ UNCHANGED <<clockVars, lines, envVars, connVars, registry, minfo, lockVars,
                 c2pVars, p2cVars, pools, storeVars, pingLog, accLog>>

\* manager.get_or_create(name); metrics.write().await.add_ping_sample(ping_ms)
ProbePush(c, id) ==
  \E i \in DOMAIN probe[id] :
    /\ probe[id][i].pc = "push"
    /\ api.pool # id
    /\ \E t \in Clock(c) :
         /\ ReadClock(t)
         /\ pools' = [GetOrCreate(pools, id, t) EXCEPT
                        ![id] = AddPingSample(@, probe[id][i].ms, t)]
    /\ pingLog' = [pingLog EXCEPT ![id] = Append(@, probe[id][i].ms)]
    /\ probe' = [probe EXCEPT ![id][i] = ProbeIdle]
  /\ UNCHANGED <<lines, envVars, connVars, registry, minfo, lockVars, c2pVars,
                 p2cVars, storeVars, accLog>>

\* an accepted share of some session of the pool reaches the pool metrics:
\* get_or_create(pool_config.name), shares_accepted += 1, add_accept_time
AcceptSample(c, id) ==
  /\ Len(accLog[PoolName(id)]) < c.maxPushes
  /\ api.pool # PoolName(id)
  /\ LET x == Latency(Len(accLog[PoolName(id)]) + 1)
     IN /\ pools' = [GetOrCreate(pools, PoolName(id), now) EXCEPT
                       ![PoolName(id)] = PoolShareMetrics(@, PAccept, x)]
        /\ accLog' = [accLog EXCEPT ![PoolName(id)] = Append(@, x)]
  /\ UNCHANGED <<clockVars, lines, envVars, connVars, registry, minfo, lockVars,
                 c2pVars, p2cVars, storeVars, probe, pingLog>>

NextPing(c) ==
  \/ MonitorTick(c)
  \/ \E id \in c.pools : ProbeConnect(c, id) \/ ProbePush(c, id) \/ AcceptSample(c, id)

\* The ping monitor of one configured pool and the accept samples of that
\* pool, no session modelled.
PingCfg ==
  [sessions |-> {}, tunnels |-> {"t1"}, pools |-> {"pool1"}, db |-> {TRUE},
   clientLines |-> {}, poolLines |-> {}, maxLines |-> 0,
   steps |-> {PingIntervalMs}, maxTicks |-> PingTicks, maxPushes |-> MaxPushes]

SpecPing == Init(PingCfg) /\ [][NextPing(PingCfg)]_vars

\* ---- start-up and shutdown of the process (main.rs) ----

\* `for (name, tunnel_config) in &config.tunnels`: the pool is looked up and,
\* if it is missing, `?` makes main return the error: the runtime is dropped
\* with every task; otherwise the start_tunnel task is spawned.
MainStart(t) ==
  /\ boot.pc = "tunnels" /\ t \in boot.todo
  /\ boot' = IF boot.known[t]
               THEN [boot EXCEPT !.todo = @ \ {t}, !.task[t] = "spawned"]
               ELSE [boot EXCEPT !.pc = "exit", !.code = 1,
                                 !.task = [u \in DOMAIN boot.task |-> "gone"]]
  /\ UNCHANGED <<clockVars, lines, dbOn, calc, api, monVars, connVars, registry,
                 minfo, lockVars, c2pVars, p2cVars, pools, storeVars>>

\* the loop is over: main reaches tokio::signal::ctrl_c().await
MainWait ==
  /\ boot.pc = "tunnels" /\ boot.todo = {}
  /\ boot' = [boot EXCEPT !.pc = "run"]
  /\ UNCHANGED <<clockVars, lines, dbOn, calc, api, monVars, connVars, registry,
                 minfo, lockVars, c2pVars, p2cVars, pools, storeVars>>

\* start_tunnel: TcpListener::bind(&addr).await?; on Err the task prints
\* "Tunnel {} error" and ends
Bind(t) ==
  /\ boot.pc # "exit" /\ boot.task[t] = "spawned"
  /\ boot' = [boot EXCEPT !.task[t] = IF boot.free[t] THEN "listening" ELSE "failed"]
  /\ UNCHANGED <<clockVars, lines, dbOn, calc, api, monVars, connVars, registry,
                 minfo, lockVars, c2pVars, p2cVars, pools, storeVars>>

\* ctrl_c().await returns: "Shutting down...", Ok(()); main returns and the
\* runtime is dropped: every task ends at the await it is at, the accept
\* loops, the handlers, the pumps and the spawned writes alike.
CtrlC ==
  /\ boot.pc = "run"
  /\ boot' = [boot EXCEPT !.pc = "exit", !.code = 0,
                          !.task = [u \in DOMAIN boot.task |-> "gone"]]
  /\ hpc' = [s \in DOMAIN hpc |->
               IF hpc[s] \in {"failed", "closed"} THEN hpc[s] ELSE "killed"]
  /\ cpc' = [s \in DOMAIN cpc |->
               IF cpc[s] = "off" \/ PumpDone(cpc[s]) THEN cpc[s] ELSE "killed"]
  /\ ppc' = [s \in DOMAIN ppc |->
               IF ppc[s] = "off" \/ PumpDone(ppc[s]) THEN ppc[s] ELSE "killed"]
  /\ pend' = {}
  /\ UNCHANGED <<clockVars, lines, dbOn, calc, api, monVars, route, registry, minfo,
                 lockVars, cline, cin, pout, pline, psub, pin, cout, pools,
                 enq, shares, snaps, minersDb>>

\* main with its tunnels not started yet: each tunnel's pool is in
\* config.pools or not, its address can be bound or not
InitBoot ==
  /\ InitState(NoCfg) /\ calc = NoCalc
  /\ \E k \in [Tunnels -> BOOLEAN], f \in [Tunnels -> BOOLEAN] :
       boot = [pc |-> "tunnels", code |-> 0, todo |-> Tunnels,
               task |-> [t \in Tunnels |-> "none"], known |-> k, free |-> f]

NextBoot == MainWait \/ CtrlC \/ \E t \in Tunnels : MainStart(t) \/ Bind(t)

SpecBoot == InitBoot /\ [][NextBoot]_vars

\* A session of one client, and the shutdown signal at any moment of it.
SpecDown == Init(OneCfg) /\ [][Next(OneCfg) \/ CtrlC]_vars

\* ---- the HTTP reader and the system-metrics refresher (api.rs, metrics.rs) ----

HandleMetricsKeepsPool ==
  /\ \/ /\ api.pc \in {"idle", "syswait"}
        /\ IF "refresh" \notin api.sys /\ (api.pc = "syswait" \/ api.rpc # "wait")
             THEN api' = [api EXCEPT !.pc = "pools", !.sys = @ \cup {"http"},
                                    !.pools = DOMAIN pools, !.miners = registry]
             ELSE api' = [api EXCEPT !.pc = "syswait"]
        /\ UNCHANGED lockVars
     \/ /\ api.pc = "pools" /\ api.pools # {}
        /\ \E n \in api.pools : api' = [api EXCEPT !.pc = "pool", !.pool = n]
        /\ UNCHANGED lockVars
     \/ /\ api.pc = "pool"
        /\ api' = [api EXCEPT !.pc = "pools", !.pools = @ \ {api.pool}]
        /\ UNCHANGED lockVars
     \/ /\ api.pc = "pools" /\ api.pools = {}
        /\ api' = [api EXCEPT !.pc = "miners"]
        /\ UNCHANGED lockVars
     \/ /\ api.pc = "miners" /\ api.miners # {}
        /\ \E s \in api.miners :
             IF ReadFree(s)
               THEN /\ mlock' = [mlock EXCEPT ![s] = @ \cup {"http"}]
                    /\ api' = [api EXCEPT !.pc = "miner", !.miner = s]
                    /\ UNCHANGED mq
               ELSE /\ Enqueue(s, "http")
                    /\ api' = [api EXCEPT !.pc = "mwait", !.miner = s]
                    /\ UNCHANGED mlock
     \/ /\ api.pc = "mwait"
        /\ ReadTurn(api.miner, "http")
        /\ Dequeue(api.miner)
        /\ mlock' = [mlock EXCEPT ![api.miner] = @ \cup {"http"}]
        /\ api' = [api EXCEPT !.pc = "miner"]
     \/ /\ api.pc = "miner"
        /\ mlock' = [mlock EXCEPT ![api.miner] = @ \ {"http"}]
        /\ api' = [api EXCEPT !.pc = "miners", !.miners = @ \ {api.miner},
                              !.miner = 0]
        /\ UNCHANGED mq
     \/ /\ api.pc = "miners" /\ api.miners = {}
        /\ api' = [api EXCEPT !.pc = "idle", !.sys = @ \ {"http"}, !.pool = ""]
        /\ UNCHANGED lockVars
  /\ UNCHANGED <<clockVars, lines, dbOn, calc, boot, monVars, connVars, registry,
                 minfo, c2pVars, p2cVars, pools, storeVars>>

\* handle_metrics, one disjunct per await: system_metrics.read() held to the
\* end; get_all_pools and get_all_miners; each pool's read guard taken and
\* dropped in its loop turn; then each miner's read guard likewise.  A
\* request is served at a time.
HandleMetrics ==
  /\ \/ /\ api.pc \in {"idle", "syswait"}
        /\ IF "refresh" \notin api.sys /\ (api.pc = "syswait" \/ api.rpc # "wait")
             THEN api' = [api EXCEPT !.pc = "pools", !.sys = @ \cup {"http"},
                                    !.pools = DOMAIN pools, !.miners = registry]
             ELSE api' = [api EXCEPT !.pc = "syswait"]
        /\ UNCHANGED lockVars
     \/ /\ api.pc = "pools" /\ api.pools # {}
        /\ \E n \in api.pools : api' = [api EXCEPT !.pc = "pool", !.pool = n]
        /\ UNCHANGED lockVars
     \/ /\ api.pc = "pool"
        /\ api' = [api EXCEPT !.pc = "pools", !.pools = @ \ {api.pool}, !.pool = ""]
        /\ UNCHANGED lockVars
     \/ /\ api.pc = "pools" /\ api.pools = {}
        /\ api' = [api EXCEPT !.pc = "miners"]
        /\ UNCHANGED lockVars
     \/ /\ api.pc = "miners" /\ api.miners # {}
        /\ \E s \in api.miners :
             IF ReadFree(s)
               THEN /\ mlock' = [mlock EXCEPT ![s] = @ \cup {"http"}]
                    /\ api' = [api EXCEPT !.pc = "miner", !.miner = s]
                    /\ UNCHANGED mq
               ELSE /\ Enqueue(s, "http")
                    /\ api' = [api EXCEPT !.pc = "mwait", !.miner = s]
                    /\ UNCHANGED mlock
     \/ /\ api.pc = "mwait"
        /\ ReadTurn(api.miner, "http")
        /\ Dequeue(api.miner)
        /\ mlock' = [mlock EXCEPT ![api.miner] = @ \cup {"http"}]
        /\ api' = [api EXCEPT !.pc = "miner"]
     \/ /\ api.pc = "miner"
        /\ mlock' = [mlock EXCEPT ![api.miner] = @ \ {"http"}]
        /\ api' = [api EXCEPT !.pc = "miners", !.miners = @ \ {api.miner},
                              !.miner = 0]
        /\ UNCHANGED mq
     \/ /\ api.pc = "miners" /\ api.miners = {}
        /\ api' = [api EXCEPT !.pc = "idle", !.sys = @ \ {"http"}]
        /\ UNCHANGED lockVars
  /\ UNCHANGED <<clockVars, lines, dbOn, calc, boot, monVars, connVars, registry,
                 minfo, c2pVars, p2cVars, pools, storeVars>>

\* update_system_metrics: interval.tick(), refresh, metrics.write().await,
\* m.update, the guard dropped at the end of the loop turn
UpdateSystemMetrics ==
  /\ \/ /\ api.rpc \in {"idle", "wait"}
        /\ api' = IF api.sys = {}
                    THEN [api EXCEPT !.rpc = "update", !.sys = {"refresh"}]
                    ELSE [api EXCEPT !.rpc = "wait"]
     \/ /\ api.rpc = "update"
        /\ api' = [api EXCEPT !.rpc = "idle", !.sys = {}]
  /\ UNCHANGED <<clockVars, lines, dbOn, calc, boot, monVars, connVars, registry,
                 minfo, lockVars, c2pVars, p2cVars, pools, storeVars>>

\* One session submitting and getting replies, the ping monitor, the HTTP
\* reader and the refresher side by side.
ApiCfg ==
  [sessions |-> {1}, tunnels |-> {"t1"}, pools |-> {"pool1"}, db |-> {TRUE},
   clientLines |-> {CSubmit}, poolLines |-> {PAccept},
   maxLines |-> ApiLines, steps |-> {}, maxTicks |-> 0, maxPushes |-> ApiPushes]

SpecApi ==
  Init(ApiCfg)
    /\ [][\/ Next(ApiCfg) \/ HandleMetrics \/ UpdateSystemMetrics
          \/ MonitorTick(ApiCfg)
          \/ \E id \in ApiCfg.pools :
               ProbeConnect(ApiCfg, id) \/ ProbePush(ApiCfg, id)]_vars

\* The monitor's ticks in a burst (interval's missed ticks fire back to
\* back): the tasks of one tick are still in flight at the next.
BurstCfg ==
  [sessions |-> {}, tunnels |-> {"t1"}, pools |-> {"pool1"}, db |-> {TRUE},
   clientLines |-> {}, poolLines |-> {}, maxLines |-> 0,
   steps |-> {PingIntervalMs}, maxTicks |-> 1, maxPushes |-> BurstPushes,
   probes |-> MaxProbes]

SpecBurst == Init(BurstCfg) /\ [][NextPing(BurstCfg)]_vars

\* One session with malformed lines in both directions (text that is not
\* JSON, bytes that are not UTF-8) and a clock that advances by eleven
\* minutes, beyond the hashrate window.
MixCfg ==
  [sessions |-> {1}, tunnels |-> {"t1"}, pools |-> {"pool1"}, db |-> BOOLEAN,
   clientLines |-> {CSubmit, CGarbage, CBinary},
   poolLines |-> {PAccept, PReject, PGarbage, PBinary},
   maxLines |-> MixLines, steps |-> {660000}, maxTicks |-> MixTicks]

SpecMix == Init(MixCfg) /\ [][Next(MixCfg)]_vars

\* Two clients of the same tunnel, one after the other or side by side; the
\* clock is not observed to advance.
TwoCfg ==
  [sessions |-> {1, 2}, tunnels |-> {"t1"}, pools |-> {"pool1"}, db |-> {TRUE},
   clientLines |-> {CSubmit}, poolLines |-> {PAccept},
   maxLines |-> TwoLines, steps |-> {}, maxTicks |-> 0]

SpecTwo == Init(TwoCfg) /\ [][Next(TwoCfg)]_vars

\* One session that authorizes with every shape of username.
AuthCfg ==
  [sessions |-> {1}, tunnels |-> {"t1"}, pools |-> {"pool1"}, db |-> BOOLEAN,
   clientLines |-> {CAuth, CAuthBare, CAuthDot, CAuthNum}, poolLines |-> {PAccept},
   maxLines |-> AuthLines, steps |-> {40}, maxTicks |-> AuthTicks]

SpecAuth == Init(AuthCfg) /\ [][Next(AuthCfg)]_vars

\* ========================================================== properties
IsPrefix(a, b) == Len(a) <= Len(b) /\ \A i \in 1..Len(a) : a[i] = b[i]
Live == DOMAIN minfo      \* sessions that were registered

\* C1: relay fidelity.  In each direction the lines written to one peer are
\* a prefix of the lines read from the other, same order, unmodified; once
\* a pump has ended on end-of-stream the two sequences are equal.
C1_RelayFidelity ==
  \A s \in DOMAIN cin :
    /\ IsPrefix(pout[s], cin[s])
    /\ IsPrefix(cout[s], pin[s])
    /\ Len(cin[s]) - Len(pout[s]) <= 1
    /\ Len(pin[s]) - Len(cout[s]) <= 1
    /\ cpc[s] = "eof" => pout[s] = cin[s]
    /\ ppc[s] = "eof" => cout[s] = pin[s]

\* two different lines were relayed client->pool and the pump ended cleanly,
\* and a line was relayed pool->client
C1_Witness ==
  /\ cpc[1] = "eof" /\ Len(pout[1]) = 2 /\ pout[1][1] # pout[1][2]
  /\ ppc[1] = "eof"

\* C2: per direction, a line's counter update and parser effects are applied
\* only after that line was written to the opposite peer, and the next line
\* is read only after the previous one was written and fully handled.
C2_Step(s) ==
  /\ (s \in DOMAIN minfo /\ cpc'[s] # cpc[s] /\ minfo'[s] # minfo[s]) =>
        /\ Len(pout[s]) = Len(cin[s]) /\ Len(pout[s]) > 0
        /\ pout[s][Len(pout[s])] = cline[s]
  /\ (s \in DOMAIN minfo /\ ppc'[s] # ppc[s] /\ minfo'[s] # minfo[s]) =>
        /\ Len(cout[s]) = Len(pin[s]) /\ Len(cout[s]) > 0
        /\ cout[s][Len(cout[s])] = pline[s]
  /\ cin'[s] # cin[s] =>
        /\ cpc[s] = "read" /\ cline[s] = NoLine /\ Len(pout[s]) = Len(cin[s])
        /\ cin'[s] = Append(cin[s], cline'[s])
  /\ pin'[s] # pin[s] =>
        /\ ppc[s] = "read" /\ pline[s] = NoLine /\ Len(cout[s]) = Len(pin[s])
        /\ pin'[s] = Append(pin[s], pline'[s])

C2_WriteBeforeEffects == [][\A s \in DOMAIN cin : C2_Step(s)]_vars

\* both pumps have counted and parsed a line they relayed
C2_Witness ==
  /\ 1 \in DOMAIN minfo
  /\ minfo[1].packets_sent = 1 /\ minfo[1].packets_received = 1
  /\ minfo[1].wallet # <<>>
  /\ cpc[1] = "read" /\ ppc[1] = "read"

SubmitCount(q) ==
  Cardinality({i \in 1..Len(q) : MethodOf(q[i]) = "mining.submit"})

PoolOf(s) == TunnelPool(route[s])

\* C3: a result=bool reply on a session that has observed no mining.submit
\* changes no share counter of the session or of its pool and enqueues no
\* ShareRecord.
C3_NoShareWithoutSubmit ==
  \A s \in Live :
    SubmitCount(cin[s]) = 0 =>
      /\ minfo[s].shares_accepted = 0 /\ minfo[s].shares_rejected = 0
      /\ \A i \in 1..Len(enq) : enq[i].port # minfo[s].port
      /\ (\A r \in Live : PoolOf(r) = PoolOf(s) => SubmitCount(cin[r]) = 0) =>
           \A n \in DOMAIN pools \cap {PoolOf(s)} :
             pools[n].shares_accepted = 0 /\ pools[n].shares_rejected = 0

\* C4: shares_accepted + shares_rejected never exceeds the number of
\* mining.submit lines read from the client on the session.
C4_SharesWithinSubmits ==
  \A s \in Live :
    minfo[s].shares_accepted + minfo[s].shares_rejected <= SubmitCount(cin[s])

\* the pool-reply handler enters (Begins) and leaves (Ends) the part of
\* parse_pool_message that counts a share
ShareBegins(s) == ppc[s] \in {"plock2", "pwait2"} /\ ppc'[s] = "pool"
ShareEnds(s)   == ppc[s] = "pool" /\ ppc'[s] = "read"

EnqueuedOne(acc, s) ==
  /\ Len(enq') = Len(enq) + 1
  /\ SubSeq(enq', 1, Len(enq)) = enq
  /\ enq'[Len(enq')].accepted = acc
  /\ enq'[Len(enq')].port = minfo[s].port
  /\ pend' = pend \cup {Len(enq')}

\* C5: a result=true reply handled on a session adds exactly 1 to the
\* session's and to the pool's shares_accepted, pushes exactly one accept
\* time, equal to the reply's time minus the session's last_share_time (the
\* latest submit), and hands exactly one ShareRecord{accepted} to the
\* store when there is a database (none without).
C5_Step(s) ==
  /\ (ShareBegins(s) /\ pline[s].result.b) =>
        /\ minfo'[s].shares_accepted = minfo[s].shares_accepted + 1
        /\ minfo'[s].shares_rejected = minfo[s].shares_rejected
        /\ psub'[s] = now' - minfo[s].last_share_time
        /\ minfo'[s].last_share_time = minfo[s].last_share_time
        /\ PoolOf(s) \in DOMAIN pools => pools'[PoolOf(s)] = pools[PoolOf(s)]
        /\ enq' = enq
  /\ (ShareEnds(s) /\ pline[s].result.b) =>
        /\ pools'[PoolOf(s)].shares_accepted = pools[PoolOf(s)].shares_accepted + 1
        /\ pools'[PoolOf(s)].shares_rejected = pools[PoolOf(s)].shares_rejected
        /\ pools'[PoolOf(s)].accept_times =
             Append(pools[PoolOf(s)].accept_times, psub[s])
        /\ minfo'[s].shares_accepted = minfo[s].shares_accepted
        /\ minfo'[s].shares_rejected = minfo[s].shares_rejected
        /\ IF dbOn THEN EnqueuedOne(TRUE, s) ELSE enq' = enq

C5_AcceptCounted == [][\A s \in DOMAIN cin : C5_Step(s)]_vars

\* a submit 40 ms after connecting, accepted at once: the sample is 0 ms
\* after the submit, not 40 ms after the connect
C5_Witness ==
  /\ 1 \in Live /\ minfo[1].shares_accepted = 1 /\ ppc[1] = "read"
  /\ minfo[1].last_share_time = 40
  /\ "PoolA" \in DOMAIN pools
  /\ pools["PoolA"].shares_accepted = 1
  /\ pools["PoolA"].accept_times = <<0>>
  /\ Len(enq) = 1 /\ enq[1].accepted

\* C6: a result=false reply adds exactly 1 to the session's and the pool's
\* shares_rejected and hands one ShareRecord{accepted=false} to the store;
\* shares_accepted, the pool's accept-time window and average, and the
\* session's hashrates and share_times stay as they were.
C6_Step(s) ==
  /\ (ShareBegins(s) /\ ~pline[s].result.b) =>
        /\ minfo'[s] = [minfo[s] EXCEPT !.shares_rejected = @ + 1]
        /\ enq' = enq
        /\ IF PoolOf(s) \in DOMAIN pools
             THEN pools'[PoolOf(s)] = pools[PoolOf(s)]
             ELSE /\ pools'[PoolOf(s)].accept_times = <<>>
                  /\ pools'[PoolOf(s)].shares_accepted = 0
  /\ (ShareEnds(s) /\ ~pline[s].result.b) =>
        /\ pools'[PoolOf(s)] = [pools[PoolOf(s)] EXCEPT !.shares_rejected = @ + 1]
        /\ minfo'[s] = [minfo[s] EXCEPT !.last_seen = now']
        /\ IF dbOn THEN EnqueuedOne(FALSE, s) ELSE enq' = enq

C6_RejectFrame == [][\A s \in DOMAIN cin : C6_Step(s)]_vars

C6_Witness ==
  /\ 1 \in Live /\ minfo[1].shares_rejected = 1 /\ ppc[1] = "read"
  /\ SubmitCount(cin[1]) = 1
  /\ "PoolA" \in DOMAIN pools /\ pools["PoolA"].shares_rejected = 1
  /\ Len(enq) = 1 /\ ~enq[1].accepted

ErrorWithoutBool(l) ==
  /\ l.valid /\ "error" \in l.has /\ l.error.ty # "null"
  /\ ~("result" \in l.has /\ l.result.ty = "bool")

\* C7: a pool message with a non-null error and a non-boolean result changes
\* no share counter of the session or the pool and enqueues no ShareRecord;
\* shares_rejected only ever grows while a result=false line is handled.
C7_Step(s) ==
  /\ (ppc'[s] # ppc[s] /\ ErrorWithoutBool(pline[s])) =>
        /\ ppc'[s] # "pool"
        /\ pools' = pools /\ enq' = enq
        /\ s \in Live => /\ minfo'[s].shares_accepted = minfo[s].shares_accepted
                         /\ minfo'[s].shares_rejected = minfo[s].shares_rejected
  /\ (s \in Live /\ minfo'[s].shares_rejected # minfo[s].shares_rejected) =>
        pline[s].result = JBool(FALSE)

C7_ErrorIsNotReject == [][\A s \in DOMAIN cin : C7_Step(s)]_vars

\* an error reply was parsed under the session lock of a registered session
C7_Witness ==
  /\ 1 \in registry /\ pin[1] = <<PError>> /\ ppc[1] = "read"
  /\ minfo[1].packets_received = 1

\* what a session contributes to its pool's total: the in-memory counter
\* while it is live, the counter of the snapshot handed to save_miner once it
\* was torn down
SessionAccepted(s) ==
  IF snaps[s] # <<>> THEN snaps[s][Len(snaps[s])].shares_accepted
  ELSE minfo[s].shares_accepted

InFlightAccepts(n) ==
  Cardinality({s \in Live : PoolOf(s) = n /\ ppc[s] = "pool" /\ pline[s].result.b})

\* C8: with a database, a pool's shares_accepted equals the sum of the
\* accepted counts of the sessions routed to it (live: in memory; torn down:
\* as snapshotted), short by at most the number of accepts in processing.
C8_PoolTotalIsSessionSum ==
  dbOn =>
    \A n \in DOMAIN pools :
      LET S == {s \in Live : PoolOf(s) = n}
          sum == SumSeq([i \in 1..Cardinality(S) |->
                          SessionAccepted(CHOOSE s \in S :
                            Cardinality({r \in S : r < s}) = i - 1)])
      IN /\ pools[n].shares_accepted <= sum
         /\ sum - pools[n].shares_accepted <= InFlightAccepts(n)

\* C9: once the handler of a session has finished its teardown, both sockets
\* are closed: a pump of the session that waits on its socket is handed no
\* further line to relay.
C9_NoRelayAfterTeardown ==
  [][\A s \in DOMAIN cin :
       hpc[s] = "closed" =>
         /\ cpc[s] = "read" => cpc'[s] # "write"
         /\ ppc[s] = "read" => ppc'[s] # "write"]_vars

\* C10: a session is removed from the registry once, and save_miner is
\* handed exactly one snapshot of a registered session when there is a
\* database (none without, none before the teardown).
C10_OneSnapshot ==
  \A s \in DOMAIN hpc :
    /\ Len(snaps[s]) <= 1
    /\ hpc[s] \in {"idle", "dial", "failed", "run", "tdlock", "tdwait"} =>
         snaps[s] = <<>>
    /\ hpc[s] \in {"saving", "closed"} =>
         Len(snaps[s]) = IF dbOn THEN 1 ELSE 0
    /\ hpc[s] \in {"tdlock", "tdwait", "saving", "closed"} => s \notin registry
    /\ snaps[s] # <<>> => s \in Live /\ snaps[s][1].port = minfo[s].port

\* both pumps have ended, the handler has returned, one snapshot was handed
C10_Witness ==
  /\ dbOn /\ hpc[1] = "closed" /\ Len(snaps[1]) = 1
  /\ PumpDone(cpc[1]) /\ PumpDone(ppc[1]) /\ 1 \notin registry

\* neither pump of the session holds a line it has not finished with
Quiescent(s) ==
  /\ cpc[s] \in {"read", "eof", "werr"}
  /\ ppc[s] \in {"read", "eof", "werr"}

SumLen(q) == SumSeq([i \in 1..Len(q) |-> q[i].len])

SharesOf(s, acc) ==
  Cardinality({i \in 1..Len(enq) : enq[i].port = minfo[s].port /\ enq[i].accepted = acc})

\* C11: the snapshot handed to save_miner at teardown carries the session's
\* final counters: no counter of the session differs from it afterwards, and
\* once both pumps are done with their lines every relayed line and every
\* share counted for the session is in it.
C11_SnapshotIsFinal ==
  \A s \in DOMAIN snaps :
    snaps[s] # <<>> =>
      LET sn == snaps[s][Len(snaps[s])]
      IN /\ minfo[s].shares_accepted = sn.shares_accepted
         /\ minfo[s].shares_rejected = sn.shares_rejected
         /\ minfo[s].bytes_upload = sn.bytes_upload
         /\ minfo[s].bytes_download = sn.bytes_download
         /\ minfo[s].packets_sent = sn.packets_sent
         /\ minfo[s].packets_received = sn.packets_received
         /\ Quiescent(s) =>
              /\ sn.packets_sent = Len(pout[s])
              /\ sn.packets_received = Len(cout[s])
              /\ sn.shares_accepted = SharesOf(s, TRUE)
              /\ sn.shares_rejected = SharesOf(s, FALSE)

\* C12: for a closed session whose pumps are done with their lines,
\* bytes_upload and packets_sent are the total length and the number of the
\* lines written to the pool, bytes_download and packets_received those of
\* the lines written to the client.
C12_ByteAccounting ==
  \A s \in Live :
    (hpc[s] = "closed" /\ Quiescent(s)) =>
      /\ minfo[s].bytes_upload = SumLen(pout[s])
      /\ minfo[s].packets_sent = Len(pout[s])
      /\ minfo[s].bytes_download = SumLen(cout[s])
      /\ minfo[s].packets_received = Len(cout[s])

\* C14: last_seen >= connected_at in every state of every session, the
\* state right after MinerInfo::new included.
C14_SeenAfterConnected ==
  \A s \in Live : minfo[s].last_seen >= minfo[s].connected_at

\* a pump has finished with the line it held and goes back to its socket
C2PFinishes(s) == cpc[s] \in {"count", "clock1", "cwait1", "parse", "clock2", "cwait2"}
                  /\ cpc'[s] = "read"
P2CFinishes(s) == ppc[s] \in {"count", "plock1", "pwait1", "parse", "plock2", "pwait2", "pool"}
                  /\ ppc'[s] = "read"

\* C13: when a pump has finished with a relayed line of a session that is
\* in the registry, last_seen is the time of that line (not older than the
\* latest clock reading), whatever the parser made of the line.
C13_SeenOnEveryLine ==
  [][\A s \in DOMAIN cin :
       ((C2PFinishes(s) \/ P2CFinishes(s)) /\ s \in registry /\ s \in registry')
         => minfo'[s].last_seen >= now']_vars

\* C15: at all times share_times holds only timestamps strictly newer than
\* now minus 10 minutes, and no more entries than submits were observed.
C15_SubmitWindow ==
  \A s \in Live :
    /\ \A i \in 1..Len(minfo[s].share_times) :
         minfo[s].share_times[i] > now - WindowMs
    /\ Len(minfo[s].share_times) <= SubmitCount(cin[s])

\* C17: no step decreases shares_accepted or shares_rejected of a session,
\* whatever lines, well-formed or not, the two peers send.
C17_CountersMonotone ==
  [][\A s \in DOMAIN minfo :
       /\ minfo'[s].shares_accepted >= minfo[s].shares_accepted
       /\ minfo'[s].shares_rejected >= minfo[s].shares_rejected]_vars

\* a rejected share was counted and a malformed pool line handled after it
C17_Witness ==
  /\ 1 \in Live /\ pin[1] = <<PReject, PGarbage>> /\ ppc[1] = "read"
  /\ Len(cout[1]) = 2
  /\ minfo[1].shares_rejected = 1 /\ minfo[1].shares_accepted = 0

\* the client lines the c2p pump has finished with
Observed(s) ==
  SubSeq(cin[s], 1, IF cpc[s] \in {"read", "eof"} THEN Len(cin[s]) ELSE Len(cin[s]) - 1)

\* positions of the mining.authorize lines that carry a string username
Auths(q) ==
  {i \in 1..Len(q) : MethodOf(q[i]) = "mining.authorize" /\ ParamStr(q[i], 1)[1]}

Max(S) == CHOOSE x \in S : \A y \in S : y <= x

\* C16 as stated: wallet is a prefix of the display name, and the two are
\* both empty exactly when no mining.authorize has been observed.
C16_BothEmptyUntilAuthorized ==
  \A s \in registry :
    /\ IsPrefix(minfo[s].wallet, minfo[s].name)
    /\ (minfo[s].wallet = <<>> /\ minfo[s].name = <<>>) <=> (Auths(Observed(s)) = {})

\* C16 as amended: wallet is a prefix of the display name; while no
\* mining.authorize with a string username has been handled wallet is empty
\* and the display name is "Unknown"; after one with username u the display
\* name is u and wallet is the part of u before its first '.'.
C16_WalletOfName ==
  \A s \in registry :
    LET w == minfo[s].wallet
        a == Auths(Observed(s))
    IN /\ IsPrefix(w, minfo[s].name)
       /\ a = {} => w = <<>> /\ minfo[s].name = NameUnknown
       /\ a # {} =>
            LET u == Observed(s)[Max(a)].params[1].s
            IN /\ minfo[s].name = u
               /\ \A i \in 1..Len(w) : w[i] # "."
               /\ Len(w) = Len(u) \/ u[Len(w) + 1] = "."

\* two authorizes were handled, the later one with a leading '.'
C16_Witness ==
  /\ 1 \in registry /\ cin[1] = <<CAuth, CAuthDot>> /\ cpc[1] = "read"
  /\ minfo[1].name = UserDot /\ minfo[1].wallet = <<>>

\* the last min(n, 100) of the n values pushed so far, in push order
LastPushed(log) ==
  SubSeq(log, Len(log) - (IF Len(log) < 100 THEN Len(log) ELSE 100) + 1, Len(log))

\* C18: each of a pool's two windows holds exactly the last min(n, 100) of
\* the n values pushed onto it, in push order; it never exceeds 100 entries
\* and the oldest value is the one evicted.
C18_FifoWindows ==
  \A n \in DOMAIN pools :
    /\ pools[n].ping_samples = LastPushed(pingLog[n])
    /\ pools[n].accept_times = LastPushed(accLog[n])
    /\ Len(pools[n].ping_samples) <= 100
    /\ Len(pools[n].accept_times) <= 100

\* 101 samples were pushed onto each window: the first one is gone
C18_Witness ==
  /\ "pool1" \in DOMAIN pools /\ "PoolA" \in DOMAIN pools
  /\ Len(pingLog["pool1"]) = 101 /\ Len(accLog["PoolA"]) = 101
  /\ pools["pool1"].ping_samples[1] = 2 /\ pools["pool1"].ping_samples[100] = 101
  /\ pools["PoolA"].accept_times[1] = 2 /\ pools["PoolA"].accept_times[100] = 101

\* avg (a fraction <<p, q>>) is the arithmetic mean of the window w
IsMeanOf(avg, w) == avg[1] * Len(w) = SumSeq(w) * avg[2]

\* C19: whenever a window of a pool is non-empty, the pool's average is the
\* arithmetic mean of the window's current contents (never of an evicted
\* sample).
C19_AveragesAreMeans ==
  \A n \in DOMAIN pools :
    /\ pools[n].ping_samples # <<>> =>
         IsMeanOf(pools[n].average_ping, pools[n].ping_samples)
    /\ pools[n].accept_times # <<>> =>
         IsMeanOf(pools[n].avg_accept_time, pools[n].accept_times)

\* both windows have evicted their first sample: the means are those of 2..101
C19_Witness ==
  /\ "pool1" \in DOMAIN pools /\ "PoolA" \in DOMAIN pools
  /\ Len(pingLog["pool1"]) = 101 /\ Len(accLog["PoolA"]) = 101
  /\ pools["pool1"].average_ping = <<103, 2>>
  /\ pools["PoolA"].avg_accept_time = <<103, 2>>

\* C20: a ping sample is pushed only by a probe whose connect succeeded
\* within the timeout; a probe whose connect failed or timed out pushes
\* nothing and leaves the pool's entry as it was.
C20_OnlySuccessfulProbesPush ==
  [][\A id \in DOMAIN probe : \A i \in DOMAIN probe[id] :
       (probe[id][i].pc # "idle" /\ probe'[id][i].pc = "idle"
          /\ probe[id][i].out # "ok")
            => /\ pingLog'[id] = pingLog[id]
               /\ id \in DOMAIN pools => pools'[id] = pools[id]]_vars

\* C21: when the dial of the upstream pool fails, the handler returns with
\* no session registered, no snapshot handed to the store and no pool entry
\* touched; no pump of the connection ever runs, and the accept loop takes
\* the next client.
C21_Step(s) ==
  /\ (hpc[s] = "dial" /\ hpc'[s] = "failed") =>
       /\ registry' = registry /\ minfo' = minfo /\ pools' = pools
       /\ snaps' = snaps /\ minersDb' = minersDb /\ enq' = enq
  /\ hpc[s] = "failed" =>
       /\ hpc'[s] = "failed" /\ cpc'[s] = "off" /\ ppc'[s] = "off"
       /\ s \notin registry' /\ s \notin DOMAIN minfo'
       /\ snaps'[s] = <<>> /\ cin'[s] = <<>> /\ pin'[s] = <<>>

C21_AcceptGoesOn ==
  \A s \in DOMAIN hpc :
    (hpc[s] = "failed" /\ s + 1 \in DOMAIN hpc /\ hpc[s + 1] = "idle")
      => ENABLED Accept(TwoCfg, s + 1)

C21_DialFailure == []C21_AcceptGoesOn /\ [][\A s \in DOMAIN hpc : C21_Step(s)]_vars

\* the first client's dial failed; the second client was accepted afterwards
\* and its line was relayed and counted
C21_Witness ==
  /\ hpc[1] = "failed" /\ 1 \notin DOMAIN minfo
  /\ hpc[2] = "run" /\ 2 \in registry /\ minfo[2].packets_sent = 1

\* a step in which session s meets a network error or runs its teardown
SessionFails(s) ==
  \/ cpc'[s] # cpc[s] /\ cpc'[s] \in {"eof", "werr"}
  \/ ppc'[s] # ppc[s] /\ ppc'[s] \in {"eof", "werr"}
  \/ hpc'[s] # hpc[s] /\ hpc'[s] \in {"failed", "tdlock", "tdwait", "saving", "closed"}

\* C22: a network error on one session, and that session's teardown, leave
\* every other session's registry entry, fields, pumps and handler as they
\* were; the accept loop takes the next client.
C22_Step(s, r) ==
  (r # s /\ SessionFails(s)) =>
     /\ (r \in registry') = (r \in registry)
     /\ (r \in DOMAIN minfo') = (r \in DOMAIN minfo)
     /\ r \in DOMAIN minfo => minfo'[r] = minfo[r]
     /\ cpc'[r] = cpc[r] /\ ppc'[r] = ppc[r] /\ hpc'[r] = hpc[r]
     /\ mlock'[r] = mlock[r] /\ mq'[r] = mq[r]

C22_AcceptGoesOn ==
  \A s \in DOMAIN hpc :
    (hpc[s] \in {"failed", "closed"} /\ s + 1 \in DOMAIN hpc /\ hpc[s + 1] = "idle")
      => ENABLED Accept(TwoCfg, s + 1)

C22_Isolation ==
  []C22_AcceptGoesOn /\ [][\A s, r \in DOMAIN hpc : C22_Step(s, r)]_vars

\* the first session ended on a write error and was torn down while the
\* second was registered; the second then had a line relayed and counted
C22_Witness ==
  /\ cpc[1] = "werr" /\ hpc[1] = "closed"
  /\ hpc[2] = "run" /\ 2 \in registry /\ minfo[2].packets_sent = 1
  /\ cpc[2] = "read" /\ ppc[2] = "read"

\* the fields of a session other than the traffic counters of one direction
SansUpload(m)   == [m EXCEPT !.bytes_upload = 0, !.packets_sent = 0]
SansDownload(m) == [m EXCEPT !.bytes_download = 0, !.packets_received = 0]

\* C23: a line that is not valid JSON, in either direction, is relayed
\* verbatim and does not end the pump that read it; the steps of the pump
\* on that line change nothing of the session but the byte and packet
\* counters of its direction, and nothing of the pool metrics.
C23_Step(s) ==
  /\ (cpc[s] = "read" /\ Len(cin'[s]) > Len(cin[s])
        /\ ~cin'[s][Len(cin'[s])].valid) =>
       /\ cpc'[s] = "write" /\ cline'[s] = cin'[s][Len(cin'[s])]
  /\ (cpc[s] = "write" /\ ~cline[s].valid /\ cpc'[s] = "count") =>
       pout'[s] = Append(pout[s], cline[s])
  /\ (cpc[s] \in {"write", "count", "clock1", "cwait1", "parse"}
        /\ ~cline[s].valid /\ cpc'[s] # cpc[s]) =>
       /\ cpc'[s] \in {"count", "clock1", "cwait1", "parse", "read", "werr"}
       /\ s \in DOMAIN minfo => SansUpload(minfo'[s]) = SansUpload(minfo[s])
       /\ pools' = pools /\ hpc' = hpc /\ enq' = enq
  /\ (ppc[s] = "read" /\ Len(pin'[s]) > Len(pin[s])
        /\ ~pin'[s][Len(pin'[s])].valid) =>
       /\ ppc'[s] = "write" /\ pline'[s] = pin'[s][Len(pin'[s])]
  /\ (ppc[s] = "write" /\ ~pline[s].valid /\ ppc'[s] = "count") =>
       cout'[s] = Append(cout[s], pline[s])
  /\ (ppc[s] \in {"write", "count", "plock1", "pwait1", "parse"}
        /\ ~pline[s].valid /\ ppc'[s] # ppc[s]) =>
       /\ ppc'[s] \in {"count", "plock1", "pwait1", "parse", "read", "werr"}
       /\ s \in DOMAIN minfo => SansDownload(minfo'[s]) = SansDownload(minfo[s])
       /\ pools' = pools /\ hpc' = hpc /\ enq' = enq

C23_InvalidJsonRelayed == [][\A s \in DOMAIN hpc : C23_Step(s)]_vars

RECURSIVE SumOver(_, _)
SumOver(S, f) ==
  IF S = {} THEN 0
  ELSE LET x == CHOOSE y \in S : TRUE IN f[x] + SumOver(S \ {x}, f)

Counters ==
  {"shares_accepted", "shares_rejected", "bytes_download", "bytes_upload",
   "packets_sent", "packets_received"}

KeyOf(m) == <<m.wallet, m.ip, m.name>>

\* the torn-down sessions of a key whose snapshot was handed to the store
TornDown(k) ==
  {s \in DOMAIN minfo : hpc[s] = "closed" /\ snaps[s] # <<>> /\ KeyOf(minfo[s]) = k}

LastSnap(s) == snaps[s][Len(snaps[s])]

\* every handler has returned and every pump has ended
AllEnded ==
  \A s \in DOMAIN hpc :
    /\ hpc[s] \in {"closed", "failed"}
    /\ hpc[s] = "closed" => PumpDone(cpc[s]) /\ PumpDone(ppc[s])

\* C24: once every session is over, the miners row of a key whose snapshots
\* were all stored has each counter equal to the sum of the final counters of
\* the torn-down sessions of that key, and the rates, pool_name and last_seen
\* of one of their snapshots.
C24_UpsertAdditivity ==
  AllEnded =>
    \A k \in DOMAIN minersDb :
      LET row == minersDb[k]
          T == TornDown(k)
      IN (\A f \in Counters : row[f] = SumOver(T, [s \in T |-> LastSnap(s)[f]]))
           => /\ \A f \in Counters : row[f] = SumOver(T, [s \in T |-> minfo[s][f]])
              /\ \E s \in T :
                   /\ row.current_hashrate = LastSnap(s).current_hashrate
                   /\ row.average_hashrate = LastSnap(s).average_hashrate
                   /\ row.last_seen = LastSnap(s).last_seen
                   /\ row.pool_name = LastSnap(s).pool_name

\* C25: handing a share to the store leaves the pump free to read the next
\* line with the write still pending, and the end of a share write, stored
\* or failed, changes no session, no counter, no pool entry and no pump.
C25_Step ==
  /\ Len(enq') > Len(enq) =>
       /\ Len(enq') \in pend' /\ shares' = shares
       /\ \A s \in DOMAIN ppc : ppc[s] = "pool" => ppc'[s] = "read"
  /\ pend' # pend /\ Len(enq') = Len(enq) =>
       /\ minfo' = minfo /\ pools' = pools /\ registry' = registry
       /\ hpc' = hpc /\ cpc' = cpc /\ ppc' = ppc /\ cout' = cout /\ pout' = pout

C25_PumpCanRead ==
  \A s \in DOMAIN ppc :
    (pend # {} /\ ppc[s] = "read" /\ lines < OneCfg.maxLines)
      => ENABLED P2CRead(OneCfg, s)

C25_ShareWriteDetached == []C25_PumpCanRead /\ [][C25_Step]_vars

\* the pump has relayed a second line while the write of the first reply's
\* share is still pending
C25_Witness ==
  /\ 1 \in pend /\ shares = <<>> /\ Len(cout[1]) = 2 /\ hpc[1] = "run"

\* the value divided by 1000 i times
RECURSIVE Scaled(_, _)
Scaled(h, i) == IF i = 0 THEN h ELSE Scaled(Div1000(h), i - 1)

\* digits / 10^prec is a decimal nearest to the value
Nearest(digits, prec, v) ==
  LET e == digits * Den(v) - Num(v, prec)
      a == IF e < 0 THEN -e ELSE e
  IN a <= Den(v) - a

Below1000PH(h) == ~Ge(Scaled(h, Len(Units) - 1), 1000)

Rendered(h, digits, prec, unit) ==
  calc.arg = h => calc.ret = [digits |-> digits, prec |-> prec, unit |-> unit]

FmtExamples ==
  /\ Rendered(Hashrate(0, 1, 0), 0, 0, "H/s")
  /\ Rendered(Hashrate(1500, 1, 0), 150, 2, "KH/s")
  /\ Rendered(Hashrate(12345000, 1, 0), 123, 1, "MH/s")
  /\ Rendered(Hashrate(250, 1, 3), 250, 0, "GH/s")

\* unit i is the largest in which the value is at least 1 (orLess: or it is
\* H/s), the precision follows the scaled value, the digits are the rounded
\* scaled value
FmtRule(h, o, orLess) ==
  \E i \in 0..(Len(Units) - 1) :
    LET v == Scaled(h, i)
    IN /\ o.unit = Units[i + 1]
       /\ Ge(v, 1) \/ (orLess /\ i = 0)
       /\ i = Len(Units) - 1 \/ ~Ge(v, 1000)
       /\ o.prec = (IF Ge(v, 100) THEN 0 ELSE IF Ge(v, 10) THEN 1 ELSE 2)
       /\ Nearest(o.digits, o.prec, v)

\* C26 as stated: format_hashrate picks the largest unit in which the value
\* is at least 1, prints 0, 1 or 2 fractional digits for a scaled value of at
\* least 100, at least 10, or less, renders the four examples as given, and
\* prints a number below 1000 for every input below 1000 PH/s.
C26_PrintedBelow1000 ==
  calc.pc = "ret" =>
    /\ FmtExamples
    /\ calc.arg.n # 0 =>
         /\ FmtRule(calc.arg, calc.ret, FALSE)
         /\ Below1000PH(calc.arg) => calc.ret.digits < 1000 * Pow(10, calc.ret.prec)

\* C26, amended: the unit is H/s when the value is below 1 in every unit,
\* and the printed number is at most 1000 for every input below 1000 PH/s.
C26_FormatHashrate ==
  calc.pc = "ret" =>
    /\ FmtExamples
    /\ calc.arg.n # 0 =>
         /\ FmtRule(calc.arg, calc.ret, TRUE)
         /\ Below1000PH(calc.arg) => calc.ret.digits <= 1000 * Pow(10, calc.ret.prec)

\* 999999 H/s was rendered: "1000 KH/s"
C26_Witness ==
  /\ calc.pc = "ret" /\ calc.arg = Hashrate(999999, 1, 0)
  /\ calc.ret = [digits |-> 1000, prec |-> 0, unit |-> "KH/s"]

\* the submit timestamps of the call that lie within the last 10 minutes
InWindow == SelectSeq(calc.arg.share_times, LAMBDA x : x > calc.t - WindowMs)

\* whole seconds between the first and the last in-window timestamp
SpanSecs == (InWindow[Len(InWindow)] \div 1000) - (InWindow[1] \div 1000)

\* the rate r (a fraction) is count / secs * difficulty
IsRate(r, count, secs, difficulty) == r[1] * secs = count * difficulty * r[2]

\* C27 as stated: current_hashrate is computed from the in-window
\* timestamps only; it is 0 if fewer than 2 remain and otherwise the number
\* of in-window timestamps over the seconds between the first and the last,
\* times the difficulty.
C27_RateOverSpan ==
  calc.pc = "ret" =>
    /\ calc.ret.share_times = InWindow
    /\ Len(InWindow) < 2 => calc.ret.current_hashrate = RatZero
    /\ Len(InWindow) >= 2 =>
         IsRate(calc.ret.current_hashrate, Len(InWindow), SpanSecs,
                calc.arg.difficulty)

\* C27, amended: with 2 or more in-window timestamps current_hashrate is the
\* count over the whole seconds between the first and the last, times the
\* difficulty, when that number of seconds is positive, and is left as it
\* was otherwise.
C27_CurrentHashrate ==
  calc.pc = "ret" =>
    /\ calc.ret.share_times = InWindow
    /\ Len(InWindow) < 2 => calc.ret.current_hashrate = RatZero
    /\ (Len(InWindow) >= 2 /\ SpanSecs > 0) =>
         IsRate(calc.ret.current_hashrate, Len(InWindow), SpanSecs,
                calc.arg.difficulty)
    /\ (Len(InWindow) >= 2 /\ SpanSecs = 0) =>
         calc.ret.current_hashrate = calc.arg.current_hashrate

\* three submits spanning 60 s at difficulty 1024: 51.2 H/s
C27_Witness ==
  /\ calc.pc = "ret" /\ calc.arg.share_times = <<0, 30000, 60000>>
  /\ calc.t = 60000 /\ calc.arg.difficulty = 1024
  /\ calc.ret.current_hashrate = <<256, 5>>

\* C28: the ping samples of a configured pool and the share counters and
\* accept times of its sessions are in one PoolMetrics entry, keyed by the
\* pool's name: there is no entry under any other key, and no sample was
\* pushed for a key that is not the pool's name.
C28_OneEntryPerPool ==
  /\ DOMAIN pools \subseteq {PoolName(id) : id \in PingCfg.pools}
  /\ \A n \in EntryNames :
       (pingLog[n] # <<>> \/ accLog[n] # <<>>) =>
          n \in {PoolName(id) : id \in PingCfg.pools}

\* the job ids of the mining.submit lines of q, in order
SubmitJobs(q) ==
  LET subs == SelectSeq(q, LAMBDA l : /\ l.valid /\ l.method = MStr("mining.submit")
                                     /\ l.paramsArr /\ Len(l.params) >= 2
                                     /\ l.params[2].ty = "str")
  IN [i \in 1..Len(subs) |-> subs[i].params[2].s]

\* C29: the ShareRecord enqueued for a reply carries the job_id of the most
\* recent mining.submit of its session (every line the client sent has been
\* parsed at that moment), whatever the pool announced in between.
C29_Step(s) ==
  (/\ Len(enq') > Len(enq) /\ enq'[Len(enq')].port = ClientPort(s)
   /\ cpc[s] = "read" /\ s \in registry /\ SubmitJobs(cin[s]) # <<>>)
    => enq'[Len(enq')].job_id = SubmitJobs(cin[s])[Len(SubmitJobs(cin[s]))]

C29_RecordHasSubmittedJob == [][\A s \in DOMAIN hpc : C29_Step(s)]_vars

\* C30: parsing a mining.submit line that has no string second parameter
\* leaves the session's job_id, last_share_time and share_times as they were.
C30_Step(s) ==
  (cline[s] = CSubmitBare /\ cpc'[s] # cpc[s] /\ s \in DOMAIN minfo) =>
     /\ minfo'[s].job_id = minfo[s].job_id
     /\ minfo'[s].last_share_time = minfo[s].last_share_time
     /\ minfo'[s].share_times = minfo[s].share_times

C30_SubmitWithoutJobIgnored == [][\A s \in DOMAIN hpc : C30_Step(s)]_vars

\* C31: every call of calculate_hashrate updates average_hashrate from the
\* current_hashrate it has just computed: to that value if the average was
\* 0, otherwise to nine tenths of the average plus a tenth of that value,
\* also when fewer than 2 in-window samples remain.
C31_AverageUpdated ==
  calc.pc = "ret" =>
    LET avg == calc.arg.average_hashrate
        cur == calc.ret.current_hashrate
        new == calc.ret.average_hashrate
    IN IF avg[1] = 0
         THEN new[1] * cur[2] = cur[1] * new[2]
         ELSE new[1] * (10 * avg[2] * cur[2])
                = (9 * avg[1] * cur[2] + cur[1] * avg[2]) * new[2]

\* C32: at most one ping probe of a pool is in flight at any time.
C32_OneProbePerPool ==
  \A id \in DOMAIN probe : Cardinality(InFlight(id)) <= 1

\* C33: get_or_create is atomic: whatever the interleaving of the callers of
\* one name, the registry keeps the one entry it once made for the name and
\* every caller updates that entry, so the entry's accepted count is the number
\* of accepts recorded for the name and its windows hold what was pushed; no
\* entry is ever taken out or replaced by a new one.
C33_GetOrCreateAtomic ==
  /\ [](\A n \in DOMAIN pools :
          /\ pools[n].name = n
          /\ pools[n].shares_accepted = Len(accLog[n])
          /\ Len(pingLog[n]) <= WindowCap => pools[n].ping_samples = pingLog[n]
          /\ Len(accLog[n]) <= WindowCap => pools[n].accept_times = accLog[n])
  /\ [][\A n \in DOMAIN pools :
          /\ n \in DOMAIN pools'
          /\ pools'[n].shares_accepted >= pools[n].shares_accepted
          /\ Len(pools'[n].ping_samples) >= Len(pools[n].ping_samples)
          /\ Len(pools'[n].accept_times) >= Len(pools[n].accept_times)]_vars

\* two probes of pool1 are about to call get_or_create("pool1") while the
\* entry, made by an earlier caller, holds that caller's sample
C33_Witness ==
  /\ "pool1" \in DOMAIN pools /\ "PoolA" \in DOMAIN pools
  /\ Len(pools["pool1"].ping_samples) >= 1
  /\ pools["PoolA"].shares_accepted >= 2
  /\ Cardinality({i \in DOMAIN probe["pool1"] : probe["pool1"][i].pc = "push"}) = 2

\* C34: a tunnel that names an unknown pool or cannot bind its address is
\* fatal at start-up: the process does not go on with the remaining tunnels
\* (main is never waiting for the signal with another tunnel listening), and
\* when it ends its exit code is not zero.
C34_StartFailureFatal ==
  (\E t \in DOMAIN boot.task : ~boot.known[t] \/ boot.task[t] = "failed") =>
    /\ boot.pc = "run" =>
         /\ \A t \in DOMAIN boot.task : boot.known[t] /\ boot.task[t] # "failed"
    /\ boot.pc = "exit" => boot.code # 0

\* C35: when the process has ended on the shutdown signal, no accept loop is
\* left and every session that was registered has run its teardown: its key is
\* out of the registry and, with a database, its MinerSnapshot was handed to
\* save_miner.
C35_ShutdownTearsDown ==
  boot.pc = "exit" =>
    /\ \A t \in DOMAIN boot.task : boot.task[t] # "listening"
    /\ \A s \in DOMAIN minfo :
         /\ s \notin registry
         /\ dbOn => snaps[s] # <<>>

\* the handler of session s is past remove_miner
PastTeardown(s) == hpc[s] \in {"tdlock", "tdwait", "saving", "closed"}

\* C36: the registry holds exactly the sessions that were registered and are
\* not torn down yet (so count() is their number): a session is registered
\* before either of its pumps has started or a line of it was read, its key is
\* absent once the handler is past remove_miner, and a step of a pump of a
\* session that is past teardown leaves the registry and the fields of every
\* registered session as they were.
C36_RegistryIsLiveSessions ==
  /\ [](/\ registry = {s \in DOMAIN hpc : hpc[s] = "run"}
        /\ Cardinality(registry)
             = Cardinality({s \in DOMAIN minfo : ~PastTeardown(s)})
        /\ \A s \in DOMAIN hpc :
             (cpc[s] # "off" \/ ppc[s] # "off" \/ cin[s] # <<>> \/ pin[s] # <<>>)
               => s \in DOMAIN minfo /\ (s \in registry \/ PastTeardown(s)))
  /\ [][\A s \in DOMAIN hpc :
          (PastTeardown(s) /\ (cpc'[s] # cpc[s] \/ ppc'[s] # ppc[s]))
            => /\ registry' = registry
               /\ \A r \in registry : minfo'[r] = minfo[r]]_vars

\* session 1 is torn down and closed with its pool->client pump still at work
\* on a line, while session 2 is registered and live
C36_Witness ==
  /\ hpc[1] = "closed" /\ 1 \notin registry /\ cpc[1] = "eof"
  /\ ppc[1] \notin {"off", "read", "eof", "werr"} /\ pin[1] # <<>>
  /\ hpc[2] = "run" /\ registry = {2} /\ cin[2] # <<>>

\* the records of session s (its port) in q, in order
OfSession(q, s) == SelectSeq(q, LAMBDA r : r.port = ClientPort(s))

\* a is b with some of its elements left out, the rest in b's order
RECURSIVE IsSubSeq(_, _)
IsSubSeq(a, b) ==
  IF a = <<>> THEN TRUE
  ELSE IF b = <<>> THEN FALSE
  ELSE IF Head(a) = Head(b) THEN IsSubSeq(Tail(a), Tail(b))
  ELSE IsSubSeq(a, Tail(b))

\* how many elements of q are r
Occurrences(q, r) == Cardinality({i \in 1..Len(q) : q[i] = r})

\* C38 as stated: the rows of a session are in the shares store in the order
\* in which the session's pool->client pump made the records.
C38_RowsInReplyOrder ==
  \A s \in DOMAIN hpc : IsSubSeq(OfSession(shares, s), OfSession(enq, s))

\* C38: each ShareRecord of a session is appended to the shares store at
\* most once, by a task of its own: the rows are records the pump made, none
\* more often than it was made and none while its task is pending; the order of
\* the rows is the order in which the tasks ran.
C38_RowsAreRecordsOnce ==
  /\ Len(shares) + Cardinality(pend) <= Len(enq)
  /\ \A j \in 1..Len(shares) :
       Occurrences(shares, shares[j]) <= Occurrences(enq, shares[j])

\* the reply observed second is stored first
C38_Witness ==
  /\ Len(enq) = 2 /\ enq[1] # enq[2] /\ enq[1].port = enq[2].port
  /\ shares = <<enq[2], enq[1]>>

\* The tasks that take locks: the pumps and the handler of each session, the
\* HTTP reader and the refresher.
Http == <<"http", 0>>
Refresher == <<"refresh", 0>>
LockTasks ==
  {<<k, s>> : k \in {"c2p", "p2c", "td"}, s \in DOMAIN hpc} \cup {Http, Refresher}

TaskOf(k, s) == IF k = "http" THEN Http ELSE <<k, s>>

\* the tasks a request of kind k for the lock of session s waits for: the
\* holders it cannot share the lock with, and the requests queued before it
SessionBlockers(k, s) ==
  LET pos == CHOOSE j \in 1..Len(mq[s]) : mq[s][j] = k
      shared == IF k \in {"td", "http"} THEN {"td", "http"} ELSE {}
  IN {TaskOf(h, s) : h \in mlock[s] \ shared}
       \cup {TaskOf(mq[s][j], s) : j \in 1..(pos - 1)}

Queued(k, s) == \E j \in 1..Len(mq[s]) : mq[s][j] = k

\* the tasks that task x is waiting for, none if it is not waiting for a lock
Blockers(x) ==
  IF x = Http
    THEN IF api.pc = "mwait" THEN SessionBlockers("http", api.miner)
         ELSE IF api.pc = "syswait" THEN {Refresher}
         ELSE {}
  ELSE IF x = Refresher
    THEN IF api.rpc = "wait" /\ "http" \in api.sys THEN {Http} ELSE {}
  ELSE IF Queued(x[1], x[2]) THEN SessionBlockers(x[1], x[2])
  ELSE IF x[1] = "p2c" /\ ppc[x[2]] = "pool" /\ api.pool = TunnelPool(route[x[2]])
    THEN {Http}
  ELSE {}

\* the tasks reached from those of S along Blockers in at most n steps
RECURSIVE WaitsOn(_, _)
WaitsOn(S, n) ==
  IF n = 0 THEN S
  ELSE WaitsOn(S \cup UNION {Blockers(x) : x \in S}, n - 1)

\* C37: no reachable state is a deadlock: no task waits, directly or through
\* other waiting tasks, for a lock held by a task that waits for it; the
\* pool->client pump asks for the pool-metrics lock while it holds its session
\* lock, and a task that holds a pool-metrics guard is not waiting for any
\* session lock.
C37_NoDeadlock ==
  /\ \A x \in LockTasks :
       x \notin WaitsOn(Blockers(x), Cardinality(LockTasks))
  /\ \A s \in DOMAIN ppc : ppc[s] = "pool" => mlock[s] = {"p2c"}
  /\ api.pool # "" => api.pc = "pool"

\* the pump holds its session lock and asks for the pool-metrics lock; the
\* HTTP reader, holding the system-metrics guard, waits for that session lock
\* and the refresher waits for the system-metrics lock
C37_Witness ==
  /\ ppc[1] = "pool" /\ mlock[1] = {"p2c"}
  /\ api.pc = "mwait" /\ api.miner = 1 /\ "http" \in api.sys
  /\ api.rpc = "wait"

=============================================================================
